---- MODULE Spec2Model ----
(***************************************************************************)
(* A model of the SMTP agent/client and server of this repository:         *)
(* the cursor and grammar of parse.py, the classifier of message.py, the   *)
(* mail transaction of email.py and the session state machine of           *)
(* server.py.                                                               *)
(*                                                                         *)
(* Text on the wire is a sequence of one-character strings, so that the    *)
(* grammar is computed character by character as the code's regular        *)
(* expressions compute it.                                                  *)
(***************************************************************************)
EXTENDS Integers, Sequences, FiniteSets, TLC

(***************************************************************************)
(* Characters                                                              *)
(***************************************************************************)
Letter ==
    {"A", "B", "C", "D", "E", "F", "G", "H", "I", "J", "K", "L", "M",
     "N", "O", "P", "Q", "R", "S", "T", "U", "V", "W", "X", "Y", "Z",
     "a", "b", "c", "d", "e", "f", "g", "h", "i", "j", "k", "l", "m",
     "n", "o", "p", "q", "r", "s", "t", "u", "v", "w", "x", "y", "z"}

Digit == {"0", "1", "2", "3", "4", "5", "6", "7", "8", "9"}

LetDig == Letter \cup Digit

\* the grave accent (0x60), which cannot be written in a string of this
\* language: the one-character text is written "U+60"
GRAVE == "U+60"

\* the 95 characters of the class [ -~]
Printable ==
    LetDig \cup
    {" ", "!", "\"", "#", "$", "%", "&", "'", "(", ")", "*", "+", ",",
     "-", ".", "/", ":", ";", "<", "=", ">", "?", "@", "[", "\\", "]",
     "^", "_", GRAVE, "{", "|", "}", "~"}

SP == {" ", "\t"}

\* the characters the class [^<>()[\]\\.,;:@" \t\n] leaves out
StringExcluded ==
    {"<", ">", "(", ")", "[", "]", "\\", ".", ",", ";", ":", "@", "\"",
     " ", "\t", "\n"}

(***************************************************************************)
(* Regular expressions passed to consume.  A pattern is a record; re_match *)
(* gives the length of the match anchored at the start of s, or -1.        *)
(***************************************************************************)
Lit(text) == [kind |-> "lit", text |-> text]
RE_WHITESPACE == [kind |-> "whitespace", text |-> <<>>]
RE_NULLSPACE  == [kind |-> "nullspace", text |-> <<>>]
RE_DOMAIN     == [kind |-> "domain", text |-> <<>>]
RE_STRING     == [kind |-> "string", text |-> <<>>]
RE_ARBITRARY  == [kind |-> "arbitrary", text |-> <<>>]

Drop(s, n) == SubSeq(s, n + 1, Len(s))

IsPrefix(p, s) == Len(p) <= Len(s) /\ SubSeq(s, 1, Len(p)) = p

\* length of the longest prefix of s whose characters all satisfy "in S"
\* (inS = TRUE) or "not in S" (inS = FALSE)
RECURSIVE Span(_, _, _, _)
Span(s, i, S, inS) ==
    IF i > Len(s) \/ ((s[i] \in S) # inS) THEN i - 1
    ELSE Span(s, i + 1, S, inS)

\* [A-Za-z][A-Za-z0-9]* anchored at position i: the position of its last
\* character, or i - 1 when s[i] is not a letter
ElementEnd(s, i) ==
    IF i > Len(s) \/ s[i] \notin Letter THEN i - 1
    ELSE Span(s, i + 1, LetDig, TRUE)

\* ([A-Za-z][A-Za-z0-9]*)(\.([A-Za-z][A-Za-z0-9]*))* : after an element
\* ending at e, a further "." element is taken only when it matches whole
RECURSIVE DomainTail(_, _)
DomainTail(s, e) ==
    IF e + 1 <= Len(s) /\ s[e + 1] = "." /\ ElementEnd(s, e + 2) >= e + 2
    THEN DomainTail(s, ElementEnd(s, e + 2))
    ELSE e

DomainLen(s) ==
    IF ElementEnd(s, 1) < 1 THEN -1 ELSE DomainTail(s, ElementEnd(s, 1))

PlusLen(n) == IF n = 0 THEN -1 ELSE n

re_match(regexp, s) ==
    CASE regexp.kind = "lit" ->
            IF IsPrefix(regexp.text, s) THEN Len(regexp.text) ELSE -1
      [] regexp.kind = "whitespace" -> PlusLen(Span(s, 1, SP, TRUE))
      [] regexp.kind = "nullspace"  -> Span(s, 1, SP, TRUE)
      [] regexp.kind = "domain"     -> DomainLen(s)
      [] regexp.kind = "string"     -> PlusLen(Span(s, 1, StringExcluded, FALSE))
      [] regexp.kind = "arbitrary"  -> PlusLen(Span(s, 1, Printable, TRUE))

(***************************************************************************)
(* The cursor and the productions.  Every production returns the           *)
(* exception it raises ("none" when it returns normally) and the           *)
(* remaining string it leaves behind.                                      *)
(***************************************************************************)
Ret(rs) == [exc |-> "none", rs |-> rs]
Raise(e, rs) == [exc |-> e, rs |-> rs]

\* MessageParsingError and ParameterArgumentParsingError are subclasses of
\* ParsingError; ConsumptionError is not
IsParsingError(e) ==
    e \in {"ParsingError", "MessageParsingError", "ParameterArgumentParsingError"}

\* consume once re.match has matched n characters (n < 0: no match)
Consumed(n, rs) ==
    IF n < 0 THEN Raise("ConsumptionError", rs) ELSE Ret(Drop(rs, n))

\* a variant of consume that skips one character when nothing matches
consume_skipping(regexp, rs) ==
    IF re_match(regexp, rs) < 0 /\ Len(rs) > 0
    THEN Raise("ConsumptionError", Drop(rs, 1))
    ELSE Consumed(re_match(regexp, rs), rs)

consume(regexp, rs) == Consumed(re_match(regexp, rs), rs)

\* except ConsumptionError: raise ParsingError
AsParsingError(c) ==
    IF c.exc = "ConsumptionError" THEN Raise("ParsingError", c.rs) ELSE c

\* try: consume(regexp, rs) / except ConsumptionError: raise ParsingError
consume_or_ParsingError(regexp, rs) == AsParsingError(consume(regexp, rs))

\* one statement after another: r2 is the outcome of the second statement,
\* run on what the first left, and counts only when the first returned
Then(r1, r2) == IF r1.exc = "none" THEN r2 ELSE r1

get_first_char(rs) == IF rs = <<>> THEN "" ELSE rs[1]

parse_whitespace(rs) == consume_or_ParsingError(RE_WHITESPACE, rs)

parse_nullspace(rs) == consume_or_ParsingError(RE_NULLSPACE, rs)

parse_CRLF(rs) == consume_or_ParsingError(Lit(<<"\n">>), rs)

parse_arbitrary_text(rs) == consume_or_ParsingError(RE_ARBITRARY, rs)

parse_string(rs) == consume_or_ParsingError(RE_STRING, rs)

parse_local_part(rs) == parse_string(rs)

parse_domain(rs) == consume_or_ParsingError(RE_DOMAIN, rs)

parse_mailbox(rs) ==
    LET l == parse_local_part(rs)
        a == consume_or_ParsingError(Lit(<<"@">>), l.rs)
        d == parse_domain(a.rs)
    IN  Then(l, Then(a, d))

\* a variant of parse_path that does not ask for the closing ">"
parse_path_unclosed(rs) ==
    LET o == consume_or_ParsingError(Lit(<<"<">>), rs)
        m == parse_mailbox(o.rs)
    IN  Then(o, m)

parse_path(rs) ==
    LET o == consume_or_ParsingError(Lit(<<"<">>), rs)
        m == parse_mailbox(o.rs)
        c == consume_or_ParsingError(Lit(<<">">>), m.rs)
    IN  Then(o, Then(m, c))

parse_reverse_path(rs) == parse_path(rs)

parse_forward_path(rs) == parse_path(rs)

\* a variant of LookAhead that lets any character follow the keyword
LookAhead_any(rs) == TRUE

\* the one-character look-ahead of the HELO, DATA and QUIT grammars
LookAhead(rs) ==
    rs = <<>> \/ get_first_char(rs) \in {" ", "\t", "\n"}

\* except ParsingError as e: raise ParameterArgumentParsingError(str(e))
AsParameterArgumentError(r) ==
    IF IsParsingError(r.exc) THEN Raise("ParameterArgumentParsingError", r.rs)
    ELSE r

\* a variant of HeloArguments in which the argument is optional
HeloArguments_optional(rs) ==
    LET w == parse_nullspace(rs)
        t == parse_arbitrary_text(w.rs)
        a == IF t.exc = "none" THEN t ELSE w
        n == parse_nullspace(a.rs)
        c == parse_CRLF(n.rs)
    IN  AsParameterArgumentError(Then(w, Then(a, Then(n, c))))

\* what parse_helo_msg parses after the keyword and the look-ahead
HeloArguments(rs) ==
    LET w == parse_whitespace(rs)
        t == parse_arbitrary_text(w.rs)
        n == parse_nullspace(t.rs)
        c == parse_CRLF(n.rs)
    IN  AsParameterArgumentError(Then(w, Then(t, Then(n, c))))

\* parse_helo_msg once consume("HELO", rs) has given k
HeloAfterKeyword(k) ==
    IF k.exc = "ConsumptionError" THEN Raise("MessageParsingError", k.rs)
    ELSE IF LookAhead(k.rs) THEN HeloArguments(k.rs)
    ELSE Raise("MessageParsingError", k.rs)

parse_helo_msg(rs) == HeloAfterKeyword(consume(Lit(<<"H", "E", "L", "O">>), rs))

\* the keyword part shared by MAIL FROM: and RCPT TO: : a failed consume
\* and a failed parse_whitespace both become MessageParsingError
AsMessageError(k) ==
    IF k.exc = "none" THEN k ELSE Raise("MessageParsingError", k.rs)

TwoWordKeyword(first, second, rs) ==
    LET f == consume(Lit(first), rs)
        w == parse_whitespace(f.rs)
        s == consume(Lit(second), w.rs)
    IN  AsMessageError(Then(f, Then(w, s)))

\* what parse_mail_from_cmd and parse_rcpt_to_cmd parse after the keyword
\* (parse_reverse_path and parse_forward_path are both parse_path)
PathArguments(rs) ==
    LET a == parse_nullspace(rs)
        p == parse_path(a.rs)
        b == parse_nullspace(p.rs)
        c == parse_CRLF(b.rs)
    IN  AsParameterArgumentError(Then(a, Then(p, Then(b, c))))

\* the rest of the two grammars once the keyword part has given k
PathAfterKeyword(k) == IF k.exc # "none" THEN k ELSE PathArguments(k.rs)

parse_mail_from_cmd(rs) ==
    PathAfterKeyword(
        TwoWordKeyword(<<"M", "A", "I", "L">>, <<"F", "R", "O", "M", ":">>, rs))

parse_rcpt_to_cmd(rs) ==
    PathAfterKeyword(TwoWordKeyword(<<"R", "C", "P", "T">>, <<"T", "O", ":">>, rs))

\* a variant of NoArguments that lets the ParsingError of its
\* productions through
NoArguments_unwrapped(rs) ==
    LET n == parse_nullspace(rs)
        c == parse_CRLF(n.rs)
    IN  Then(n, c)

\* what parse_data_cmd and parse_quit_cmd parse after the keyword
NoArguments(rs) ==
    LET n == parse_nullspace(rs)
        c == parse_CRLF(n.rs)
    IN  AsParameterArgumentError(Then(n, c))

\* the two grammars once consume(keyword, rs) has given k
BareAfterKeyword(k) ==
    IF k.exc = "ConsumptionError" THEN Raise("MessageParsingError", k.rs)
    ELSE IF LookAhead(k.rs) THEN NoArguments(k.rs)
    ELSE Raise("MessageParsingError", k.rs)

\* the body shared by parse_data_cmd and parse_quit_cmd
BareKeyword(keyword, rs) == BareAfterKeyword(consume(Lit(keyword), rs))

parse_data_cmd(rs) == BareKeyword(<<"D", "A", "T", "A">>, rs)

parse_quit_cmd(rs) == BareKeyword(<<"Q", "U", "I", "T">>, rs)

(***************************************************************************)
(* Message: the classified command                                         *)
(***************************************************************************)
UNRECOGNIZED == 0
HELO == 1
MAIL_FROM == 2
RCPT_TO == 3
DATA == 4
QUIT == 5

\* a constructed Message; raised is "none" for an object that exists
Msg(type, err) ==
    [raised |-> "none", msg_type |-> type, param_arg_error |-> err]

\* the constructor left by an exception e that none of its except clauses
\* names: no Message exists
NoMsg(e) == [raised |-> e, msg_type |-> UNRECOGNIZED, param_arg_error |-> FALSE]

\* a variant of Trial in which a grammar that does not find its keyword
\* reports an argument error instead of passing
Trial_never_passes(r) ==
    IF r.exc \in {"MessageParsingError", "ParameterArgumentParsingError"}
    THEN "error"
    ELSE IF r.exc = "none" THEN "valid"
    ELSE r.exc

\* one trial of Message.__init__: the grammar run on a fresh copy of ms.
\* "pass" when it raised MessageParsingError, "error" when it raised
\* ParameterArgumentParsingError, "valid" when it returned; any other
\* exception is caught by neither except clause and is the outcome itself
Trial(r) ==
    IF r.exc = "MessageParsingError" THEN "pass"
    ELSE IF r.exc = "ParameterArgumentParsingError" THEN "error"
    ELSE IF r.exc = "none" THEN "valid"
    ELSE r.exc

Decides(t) == t \in {"error", "valid"}

\* the five trials in their order: the first that does not pass decides,
\* by the kind it gives or by the exception that leaves the constructor
FirstMatch(h, m, r, d, q) ==
    IF h # "pass" THEN IF Decides(h) THEN Msg(HELO, h = "error") ELSE NoMsg(h)
    ELSE IF m # "pass"
    THEN IF Decides(m) THEN Msg(MAIL_FROM, m = "error") ELSE NoMsg(m)
    ELSE IF r # "pass"
    THEN IF Decides(r) THEN Msg(RCPT_TO, r = "error") ELSE NoMsg(r)
    ELSE IF d # "pass"
    THEN IF Decides(d) THEN Msg(DATA, d = "error") ELSE NoMsg(d)
    ELSE IF q # "pass"
    THEN IF Decides(q) THEN Msg(QUIT, q = "error") ELSE NoMsg(q)
    ELSE Msg(UNRECOGNIZED, FALSE)

Message(ms) ==
    FirstMatch(Trial(parse_helo_msg(ms)), Trial(parse_mail_from_cmd(ms)),
               Trial(parse_rcpt_to_cmd(ms)), Trial(parse_data_cmd(ms)),
               Trial(parse_quit_cmd(ms)))

is_recognized(msg) == msg.msg_type # UNRECOGNIZED
is_helo_msg(msg) == msg.msg_type = HELO
is_mail_from_cmd(msg) == msg.msg_type = MAIL_FROM
is_rcpt_to_cmd(msg) == msg.msg_type = RCPT_TO
is_data_cmd(msg) == msg.msg_type = DATA
is_quit_cmd(msg) == msg.msg_type = QUIT
has_valid_params_args(msg) == ~msg.param_arg_error

(***************************************************************************)
(* Email: the mail transaction                                             *)
(***************************************************************************)
Email == [reverse_path |-> <<>>, forward_paths |-> <<>>, message_lines |-> <<>>]

\* a variant of set_reverse_path that stores nothing
set_reverse_path_dropped(email, reverse_path) == email

set_reverse_path(email, reverse_path) ==
    [email EXCEPT !.reverse_path = reverse_path]

\* a variant of add_forward_path that drops a path already in the list
add_forward_path_unique(email, forward_path) ==
    IF \E i \in 1..Len(email.forward_paths) : email.forward_paths[i] = forward_path
    THEN email
    ELSE [email EXCEPT !.forward_paths = Append(@, forward_path)]

add_forward_path(email, forward_path) ==
    [email EXCEPT !.forward_paths = Append(@, forward_path)]

add_message_line(email, message_line) ==
    [email EXCEPT !.message_lines = Append(@, message_line)]

Range(f) == {f[i] : i \in DOMAIN f}

\* re.search(first ".*>", s)[0] for a one-character pattern start: the
\* leftmost position holding first from which a ">" can be reached without
\* crossing a newline, extended to the last such ">"; <<>> stands for None
Reach(s, i) ==
    {j \in (i + 1)..Len(s) :
        s[j] = ">" /\ \A k \in (i + 1)..(j - 1) : s[k] # "\n"}

Max(S) == CHOOSE m \in S : \A n \in S : n <= m

Min(S) == CHOOSE m \in S : \A n \in S : m <= n

\* the match that starts at the leftmost of starts
LeftmostMatch(s, starts) ==
    IF starts = {} THEN <<>>
    ELSE SubSeq(s, Min(starts), Max(Reach(s, Min(starts))))

re_search(first, s) ==
    LeftmostMatch(s, {i \in 1..Len(s) : s[i] = first /\ Reach(s, i) # {}})

\* re.search("@.*>", forward_path)[0][1:-1]
Inner(m) == SubSeq(m, 2, Len(m) - 1)

\* a variant of DomainOf that stops at the first "." of the domain
DomainOf_first_element(forward_path) ==
    SubSeq(Inner(re_search("@", forward_path)), 1,
           Min({i \in 1..Len(forward_path) : forward_path[i] \in {".", ">"}})
               - Min({i \in 1..Len(forward_path) : forward_path[i] = "@"}) - 1)

DomainOf(forward_path) == Inner(re_search("@", forward_path))

domain_specific_forward_file_names(email) ==
    {DomainOf(forward_path) : forward_path \in Range(email.forward_paths)}

forward_file_ready_text_lines(email) == email.message_lines

(***************************************************************************)
(* The line buffer of a session (sock_stream_rem_string)                   *)
(***************************************************************************)
contains_complete_msg(rs) == \E i \in 1..Len(rs) : rs[i] = "\n"

FirstNewline(rs) == Min({i \in 1..Len(rs) : rs[i] = "\n"})

\* the line consume_and_get_msg returns, and what it leaves in the buffer
get_msg(rs) == SubSeq(rs, 1, FirstNewline(rs))

\* a variant of after_msg that leaves what follows the last newline
after_msg_last_newline(rs) ==
    Drop(rs, Max({i \in 1..Len(rs) : rs[i] = "\n"}))

after_msg(rs) == Drop(rs, FirstNewline(rs))

(***************************************************************************)
(* Server: states and message strings                                      *)
(***************************************************************************)
STATE_0 == 0
STATE_1 == 1
STATE_2 == 2
STATE_3 == 3
STATE_4 == 4

\* getfqdn(), gethostname() and client_address[0] of the run
ServerFqdn == <<"m", "x", ".", "e", "d", "u">>
ServerHostname == <<"m", "x">>
ClientIp == <<"1", "2", "7", ".", "0", ".", "0", ".", "1">>

GREETING_220_MSG == <<"2", "2", "0", " ">> \o ServerFqdn \o <<"\n">>

CLOS_CON_221_MSG ==
    <<"2", "2", "1", " ">> \o ServerHostname
    \o <<" ", "c", "l", "o", "s", "i", "n", "g", " ", "c", "o", "n", "n",
         "e", "c", "t", "i", "o", "n", "\n">>

HELO_ACK_250_MSG_START_UNENC == <<"2", "5", "0", " ", "H", "e", "l", "l", "o", " ">>

HELO_ACK_250_MSG_END_UNENC ==
    <<" ", "p", "l", "e", "a", "s", "e", "d", " ", "t", "o", " ", "m", "e",
      "e", "t", " ", "y", "o", "u", "\n">>

HELO_ACK_250_MSG ==
    HELO_ACK_250_MSG_START_UNENC \o ClientIp \o HELO_ACK_250_MSG_END_UNENC

OK_250_MSG == <<"2", "5", "0", " ", "O", "K", "\n">>

START_MAIL_354_MSG ==
    <<"3", "5", "4", " ", "S", "t", "a", "r", "t", " ", "m", "a", "i", "l",
      " ", "i", "n", "p", "u", "t", ";", " ", "e", "n", "d", " ", "w", "i",
      "t", "h", " ", "<", "C", "R", "L", "F", ">", ".", "<", "C", "R", "L",
      "F", ">", "\n">>

SYN_COM_UNREC_ERR_500_MSG ==
    <<"5", "0", "0", " ", "S", "y", "n", "t", "a", "x", " ", "e", "r", "r",
      "o", "r", ":", " ", "c", "o", "m", "m", "a", "n", "d", " ", "u", "n",
      "r", "e", "c", "o", "g", "n", "i", "z", "e", "d", "\n">>

SYN_PARAM_ARG_ERR_501_MSG ==
    <<"5", "0", "1", " ", "S", "y", "n", "t", "a", "x", " ", "e", "r", "r",
      "o", "r", " ", "i", "n", " ", "p", "a", "r", "a", "m", "e", "t", "e",
      "r", "s", " ", "o", "r", " ", "a", "r", "g", "u", "m", "e", "n", "t",
      "s", "\n">>

BAD_SEQ_COM_ERR_503_MSG ==
    <<"5", "0", "3", " ", "B", "a", "d", " ", "s", "e", "q", "u", "e", "n",
      "c", "e", " ", "o", "f", " ", "c", "o", "m", "m", "a", "n", "d", "s",
      "\n">>

EOMD_SEQ == <<".", "\n">>

FORWARD_DIR == <<"f", "o", "r", "w", "a", "r", "d", "/">>

(***************************************************************************)
(* Server: what one line does in each state.  A handler gives the message  *)
(* it sends (<<>> when it sends none), the lines it appends to each        *)
(* forward file, the transaction as it stands when the send is attempted   *)
(* (pre), and the transaction, the state and whether the session ends      *)
(* once the send has succeeded (post, next, quit).                         *)
(***************************************************************************)
NoFiles == [n \in {} |-> <<>>]

\* a variant of Reply that keeps silent where 503 is due
Reply_no_503(msg, email, next) ==
    [send |-> IF msg = BAD_SEQ_COM_ERR_503_MSG THEN <<>> ELSE msg,
     appended |-> NoFiles, pre |-> email, post |-> email,
     next |-> next, quit |-> FALSE, dies |-> FALSE]

Reply(msg, email, next) ==
    [send |-> msg, appended |-> NoFiles, pre |-> email, post |-> email,
     next |-> next, quit |-> FALSE, dies |-> FALSE]

\* send_msg(CLOS_CON_221_MSG); connection_socket.close(); break
Closing(email, st) ==
    [send |-> CLOS_CON_221_MSG, appended |-> NoFiles, pre |-> email,
     post |-> email, next |-> st, quit |-> TRUE, dies |-> FALSE]

\* Message(msg_str) raised: the exception is not a SocketError, nothing
\* catches it and the server process ends
Dies(email, st) ==
    [send |-> <<>>, appended |-> NoFiles, pre |-> email, post |-> email,
     next |-> st, quit |-> FALSE, dies |-> TRUE]

\* the QUIT branch, the same in STATE_0 .. STATE_3
QuitBranch(msg, email, st) ==
    IF has_valid_params_args(msg) THEN Closing(email, st)
    ELSE Reply(SYN_PARAM_ARG_ERR_501_MSG, email, st)

\* a variant of PathOf that takes the line from its first "<" to the
\* character before the newline
PathOf_to_eol(msg_str) ==
    SubSeq(msg_str, Min({i \in 1..Len(msg_str) : msg_str[i] = "<"}),
           Len(msg_str) - 1)

\* re.search("<.*>", msg_str)[0]
PathOf(msg_str) == re_search("<", msg_str)

\* a variant of STATE_0_line that answers an unrecognized line like a
\* command out of sequence
STATE_0_line_unrecognized_503(email, msg_str, msg) ==
    IF ~is_helo_msg(msg)
    THEN IF is_quit_cmd(msg) THEN QuitBranch(msg, email, STATE_0)
         ELSE Reply(BAD_SEQ_COM_ERR_503_MSG, email, STATE_0)
    ELSE IF ~has_valid_params_args(msg)
    THEN Reply(SYN_PARAM_ARG_ERR_501_MSG, email, STATE_0)
    ELSE Reply(HELO_ACK_250_MSG, email, STATE_1)

\* STATE_0_line once the line has been classified as msg
STATE_0_line_msg(email, msg_str, msg) ==
    IF msg.raised # "none" THEN Dies(email, STATE_0)
    ELSE IF ~is_recognized(msg) THEN Reply(SYN_COM_UNREC_ERR_500_MSG, email, STATE_0)
    ELSE IF ~is_helo_msg(msg)
    THEN IF is_quit_cmd(msg) THEN QuitBranch(msg, email, STATE_0)
         ELSE Reply(BAD_SEQ_COM_ERR_503_MSG, email, STATE_0)
    ELSE IF ~has_valid_params_args(msg)
    THEN Reply(SYN_PARAM_ARG_ERR_501_MSG, email, STATE_0)
    ELSE Reply(HELO_ACK_250_MSG, email, STATE_1)

STATE_0_line(email, msg_str) ==
    STATE_0_line_msg(email, msg_str, Message(msg_str))

\* a variant of STATE_1_line that greets again on a second HELO
STATE_1_line_helo_again(email, msg_str, msg) ==
    IF ~is_recognized(msg) THEN Reply(SYN_COM_UNREC_ERR_500_MSG, email, STATE_1)
    ELSE IF is_helo_msg(msg) /\ has_valid_params_args(msg)
    THEN Reply(HELO_ACK_250_MSG, email, STATE_1)
    ELSE IF ~is_mail_from_cmd(msg)
    THEN IF is_quit_cmd(msg) THEN QuitBranch(msg, email, STATE_1)
         ELSE Reply(BAD_SEQ_COM_ERR_503_MSG, email, STATE_1)
    ELSE IF ~has_valid_params_args(msg)
    THEN Reply(SYN_PARAM_ARG_ERR_501_MSG, email, STATE_1)
    ELSE Reply(OK_250_MSG, set_reverse_path(email, PathOf(msg_str)), STATE_2)

\* STATE_1_line once the line has been classified as msg
STATE_1_line_msg(email, msg_str, msg) ==
    IF msg.raised # "none" THEN Dies(email, STATE_1)
    ELSE IF ~is_recognized(msg) THEN Reply(SYN_COM_UNREC_ERR_500_MSG, email, STATE_1)
    ELSE IF ~is_mail_from_cmd(msg)
    THEN IF is_quit_cmd(msg) THEN QuitBranch(msg, email, STATE_1)
         ELSE Reply(BAD_SEQ_COM_ERR_503_MSG, email, STATE_1)
    ELSE IF ~has_valid_params_args(msg)
    THEN Reply(SYN_PARAM_ARG_ERR_501_MSG, email, STATE_1)
    ELSE Reply(OK_250_MSG, set_reverse_path(email, PathOf(msg_str)), STATE_2)

STATE_1_line(email, msg_str) ==
    STATE_1_line_msg(email, msg_str, Message(msg_str))

\* a variant of STATE_2_line that accepts RCPT TO without advancing
STATE_2_line_no_advance(email, msg_str, msg) ==
    IF ~is_recognized(msg) THEN Reply(SYN_COM_UNREC_ERR_500_MSG, email, STATE_2)
    ELSE IF ~is_rcpt_to_cmd(msg)
    THEN IF is_quit_cmd(msg) THEN QuitBranch(msg, email, STATE_2)
         ELSE Reply(BAD_SEQ_COM_ERR_503_MSG, email, STATE_2)
    ELSE IF ~has_valid_params_args(msg)
    THEN Reply(SYN_PARAM_ARG_ERR_501_MSG, email, STATE_2)
    ELSE Reply(OK_250_MSG, add_forward_path(email, PathOf(msg_str)), STATE_2)

\* STATE_2_line once the line has been classified as msg
STATE_2_line_msg(email, msg_str, msg) ==
    IF msg.raised # "none" THEN Dies(email, STATE_2)
    ELSE IF ~is_recognized(msg) THEN Reply(SYN_COM_UNREC_ERR_500_MSG, email, STATE_2)
    ELSE IF ~is_rcpt_to_cmd(msg)
    THEN IF is_quit_cmd(msg) THEN QuitBranch(msg, email, STATE_2)
         ELSE Reply(BAD_SEQ_COM_ERR_503_MSG, email, STATE_2)
    ELSE IF ~has_valid_params_args(msg)
    THEN Reply(SYN_PARAM_ARG_ERR_501_MSG, email, STATE_2)
    ELSE Reply(OK_250_MSG, add_forward_path(email, PathOf(msg_str)), STATE_3)

STATE_2_line(email, msg_str) ==
    STATE_2_line_msg(email, msg_str, Message(msg_str))

\* a variant of STATE_3_line that accepts DATA without looking at what
\* follows the keyword
STATE_3_line_data_unchecked(email, msg_str, msg) ==
    IF ~is_recognized(msg) THEN Reply(SYN_COM_UNREC_ERR_500_MSG, email, STATE_3)
    ELSE IF is_quit_cmd(msg) THEN QuitBranch(msg, email, STATE_3)
    ELSE IF is_rcpt_to_cmd(msg)
    THEN IF ~has_valid_params_args(msg)
         THEN Reply(SYN_PARAM_ARG_ERR_501_MSG, email, STATE_3)
         ELSE Reply(OK_250_MSG, add_forward_path(email, PathOf(msg_str)), STATE_3)
    ELSE IF is_data_cmd(msg)
    THEN Reply(START_MAIL_354_MSG, email, STATE_4)
    ELSE Reply(BAD_SEQ_COM_ERR_503_MSG, email, STATE_3)

\* STATE_3_line once the line has been classified as msg
STATE_3_line_msg(email, msg_str, msg) ==
    IF msg.raised # "none" THEN Dies(email, STATE_3)
    ELSE IF ~is_recognized(msg) THEN Reply(SYN_COM_UNREC_ERR_500_MSG, email, STATE_3)
    ELSE IF is_quit_cmd(msg) THEN QuitBranch(msg, email, STATE_3)
    ELSE IF is_rcpt_to_cmd(msg)
    THEN IF ~has_valid_params_args(msg)
         THEN Reply(SYN_PARAM_ARG_ERR_501_MSG, email, STATE_3)
         ELSE Reply(OK_250_MSG, add_forward_path(email, PathOf(msg_str)), STATE_3)
    ELSE IF is_data_cmd(msg)
    THEN IF ~has_valid_params_args(msg)
         THEN Reply(SYN_PARAM_ARG_ERR_501_MSG, email, STATE_3)
         ELSE Reply(START_MAIL_354_MSG, email, STATE_4)
    ELSE Reply(BAD_SEQ_COM_ERR_503_MSG, email, STATE_3)

STATE_3_line(email, msg_str) ==
    STATE_3_line_msg(email, msg_str, Message(msg_str))

\* the lines written to each forward file when a data block ends
Delivery(email) ==
    [n \in {FORWARD_DIR \o ff_name :
                ff_name \in domain_specific_forward_file_names(email)}
        |-> forward_file_ready_text_lines(email)]

\* a variant of STATE_4_line that ends the data block on any line that
\* starts with "."
STATE_4_line_dot_prefix(email, msg_str) ==
    IF msg_str[1] = "."
    THEN [send |-> OK_250_MSG, appended |-> Delivery(email), pre |-> email,
          post |-> Email, next |-> STATE_1, quit |-> FALSE, dies |-> FALSE]
    ELSE [send |-> <<>>, appended |-> NoFiles,
          pre |-> add_message_line(email, msg_str),
          post |-> add_message_line(email, msg_str),
          next |-> STATE_4, quit |-> FALSE, dies |-> FALSE]

\* a variant of STATE_4_line that keeps the delivered transaction
STATE_4_line_no_reset(email, msg_str) ==
    IF msg_str = EOMD_SEQ
    THEN [send |-> OK_250_MSG, appended |-> Delivery(email), pre |-> email,
          post |-> email, next |-> STATE_1, quit |-> FALSE, dies |-> FALSE]
    ELSE [send |-> <<>>, appended |-> NoFiles,
          pre |-> add_message_line(email, msg_str),
          post |-> add_message_line(email, msg_str),
          next |-> STATE_4, quit |-> FALSE, dies |-> FALSE]

\* a variant of STATE_4_line that awaits HELO after the end of the data
STATE_4_line_to_helo(email, msg_str) ==
    IF msg_str = EOMD_SEQ
    THEN [send |-> OK_250_MSG, appended |-> Delivery(email), pre |-> email,
          post |-> Email, next |-> STATE_0, quit |-> FALSE, dies |-> FALSE]
    ELSE [send |-> <<>>, appended |-> NoFiles,
          pre |-> add_message_line(email, msg_str),
          post |-> add_message_line(email, msg_str),
          next |-> STATE_4, quit |-> FALSE, dies |-> FALSE]

STATE_4_line(email, msg_str) ==
    IF msg_str = EOMD_SEQ
    THEN [send |-> OK_250_MSG, appended |-> Delivery(email), pre |-> email,
          post |-> Email, next |-> STATE_1, quit |-> FALSE, dies |-> FALSE]
    ELSE [send |-> <<>>, appended |-> NoFiles,
          pre |-> add_message_line(email, msg_str),
          post |-> add_message_line(email, msg_str),
          next |-> STATE_4, quit |-> FALSE, dies |-> FALSE]

Line(st, email, msg_str) ==
    CASE st = STATE_0 -> STATE_0_line(email, msg_str)
      [] st = STATE_1 -> STATE_1_line(email, msg_str)
      [] st = STATE_2 -> STATE_2_line(email, msg_str)
      [] st = STATE_3 -> STATE_3_line(email, msg_str)
      [] st = STATE_4 -> STATE_4_line(email, msg_str)

(***************************************************************************)
(* Inputs and bounds                                                       *)
(***************************************************************************)
L_HELO == <<"H", "E", "L", "O", " ", "a", "\n">>
L_HELO_BARE == <<"H", "E", "L", "O", "\n">>
L_MAIL_A == <<"M", "A", "I", "L", " ", "F", "R", "O", "M", ":", "<", "a", "@", "x", ">", "\n">>
L_MAIL_B == <<"M", "A", "I", "L", " ", "F", "R", "O", "M", ":", " ", "<", "b", "@", "y", ">", " ", "\n">>
L_MAIL_BAD == <<"M", "A", "I", "L", " ", "F", "R", "O", "M", ":", "<", "a", "@", ">", "\n">>
L_RCPT_B == <<"R", "C", "P", "T", " ", "T", "O", ":", "<", "b", "@", "y", ">", "\n">>
L_RCPT_C == <<"R", "C", "P", "T", " ", "T", "O", ":", " ", "<", "c", "@", "x", ".", "z", ">", "\t", "\n">>
L_RCPT_BAD == <<"R", "C", "P", "T", " ", "T", "O", ":", "b", "@", "y", "\n">>
L_DATA == <<"D", "A", "T", "A", "\n">>
L_DATA_BAD == <<"D", "A", "T", "A", " ", "x", "\n">>
L_QUIT == <<"Q", "U", "I", "T", "\n">>
L_QUIT_BAD == <<"Q", "U", "I", "T", " ", "x", "\n">>
L_DOT_SP == <<".", " ", "\n">>
L_DOTDOT == <<".", ".", "\n">>

\* the lines a client sends
Lines ==
    {L_HELO, L_HELO_BARE, L_MAIL_A, L_MAIL_B, L_MAIL_BAD,
     L_RCPT_B, L_RCPT_C, L_RCPT_BAD, L_DATA, L_DATA_BAD,
     L_QUIT, L_QUIT_BAD, EOMD_SEQ, L_DOT_SP, L_DOTDOT}

\* what one recv returns
Chunks == Lines

\* the longest forward-path list and data block a transaction is let grow to
MaxFwd == 2
MaxData == 2

(***************************************************************************)
(* The processes: the server (server.py) and the client (Email.send)       *)
(***************************************************************************)
VARIABLES
    pc,                     \* "accept": waiting in accept(); "session": in
                            \* the session loop; "crashed": the process died
    state,                  \* the session state STATE_0 .. STATE_4
    current_email,          \* the mail transaction in progress
    sock_stream_rem_string, \* the received text not yet processed
    sent,                   \* the messages the last step put on the wire
    appended,               \* the lines the last step appended, per forward file
    client_pc,              \* the statement of Email.send the client is at
    client_email,           \* the Email whose send method runs
    client_socket,          \* "none", "open" or "closed"
    client_i,               \* the loop index of the RCPT TO and data loops
    client_log,             \* the messages sent and received on the socket
    client_raised,          \* the exception that left send, or "none"
    cursor_input,           \* the text a RemainingString was made of
    cursor_rs,              \* what that RemainingString holds now
    cursor_regexp,          \* the pattern of the last consume call on it
    cursor_exc,             \* the exception that call raised, or "none"
    wire_up,                \* the bytes the client has written to the
                            \* connection and the server has not yet read
    wire_down,              \* the responses the server has written to the
                            \* connection, in order
    wire_log                \* the lines the session has handled so far, each
                            \* with what it sent and what it wrote to files

\* the variables of the server and of the client
svars == <<pc, state, current_email, sock_stream_rem_string, sent, appended>>
cvars ==
    <<client_pc, client_email, client_socket, client_i, client_log,
      client_raised>>

\* the variables of a cursor that consume is called on
pvars == <<cursor_input, cursor_rs, cursor_regexp, cursor_exc>>

\* the variables of a connection observed from outside both processes
wvars == <<wire_up, wire_down, wire_log>>

vars == <<svars, cvars, pvars, wvars>>

\* no client runs
ClientIdle ==
    /\ client_pc = "idle"
    /\ client_email = Email
    /\ client_socket = "none"
    /\ client_i = 0
    /\ client_log = <<>>
    /\ client_raised = "none"

\* no cursor is under consumption
CursorIdle ==
    /\ cursor_input = <<>>
    /\ cursor_rs = <<>>
    /\ cursor_regexp = Lit(<<>>)
    /\ cursor_exc = "none"

\* no connection is observed
WireIdle ==
    /\ wire_up = <<>>
    /\ wire_down = <<>>
    /\ wire_log = <<>>

\* the server before its first accept()
ServerIdle ==
    /\ pc = "accept"
    /\ state = STATE_0
    /\ current_email = Email
    /\ sock_stream_rem_string = <<>>
    /\ sent = <<>>
    /\ appended = NoFiles

Init == ServerIdle /\ ClientIdle /\ CursorIdle /\ WireIdle

\* a variant of Accept that keeps the buffer of the session before
Accept_keep_buffer(ok) ==
    /\ pc = "accept"
    /\ UNCHANGED <<cvars, pvars, wvars>>
    /\ appended' = NoFiles
    /\ IF ok
       THEN /\ sent' = <<GREETING_220_MSG>>
            /\ state' = STATE_0
            /\ current_email' = Email
            /\ sock_stream_rem_string' = sock_stream_rem_string
            /\ pc' = "session"
       ELSE /\ sent' = <<>>
            /\ UNCHANGED <<pc, state, current_email, sock_stream_rem_string>>

\* accept() returns a connection; the greeting is sent (ok) or send_msg
\* raises SocketError and the server goes back to accept()
Accept(ok) ==
    /\ pc = "accept"
    /\ UNCHANGED <<cvars, pvars, wvars>>
    /\ appended' = NoFiles
    /\ IF ok
       THEN /\ sent' = <<GREETING_220_MSG>>
            /\ state' = STATE_0
            /\ current_email' = Email
            /\ sock_stream_rem_string' = <<>>
            /\ pc' = "session"
       ELSE /\ sent' = <<>>
            /\ UNCHANGED <<pc, state, current_email, sock_stream_rem_string>>

\* a variant of Receive that reads from the connection whatever the buffer
\* holds
Receive_eager(chunk) ==
    /\ pc = "session"
    /\ UNCHANGED <<cvars, pvars, wvars>>
    /\ sock_stream_rem_string' = sock_stream_rem_string \o chunk
    /\ sent' = <<>>
    /\ appended' = NoFiles
    /\ UNCHANGED <<pc, state, current_email>>

\* the buffer holds no complete line: recv returns chunk, which is appended
Receive(chunk) ==
    /\ pc = "session"
    /\ ~contains_complete_msg(sock_stream_rem_string)
    /\ UNCHANGED <<cvars, pvars, wvars>>
    /\ sock_stream_rem_string' = sock_stream_rem_string \o chunk
    /\ sent' = <<>>
    /\ appended' = NoFiles
    /\ UNCHANGED <<pc, state, current_email>>

\* recv raises: recv_msg closes the socket and then fails to build its
\* message ("STATE_" + state, with state an integer, and time is not
\* imported), an error that is not a SocketError and that nothing catches
ReceiveError ==
    /\ pc = "session"
    /\ ~contains_complete_msg(sock_stream_rem_string)
    /\ UNCHANGED <<cvars, pvars, wvars>>
    /\ pc' = "crashed"
    /\ sent' = <<>>
    /\ appended' = NoFiles
    /\ UNCHANGED <<state, current_email, sock_stream_rem_string>>

\* a variant of Effect that sends the response before the forward files are
\* written, so that a failed send leaves them unwritten
Effect_send_first(o, ok) ==
    /\ Len(o.post.forward_paths) <= MaxFwd
    /\ Len(o.post.message_lines) <= MaxData
    /\ appended' = IF ok THEN o.appended ELSE NoFiles
    /\ IF o.dies
       THEN /\ ok
            /\ sent' = <<>>
            /\ current_email' = o.pre
            /\ state' = state
            /\ pc' = "crashed"
       ELSE IF o.send = <<>>
       THEN /\ ok
            /\ sent' = <<>>
            /\ current_email' = o.post
            /\ state' = o.next
            /\ pc' = pc
       ELSE IF ok
       THEN /\ sent' = <<o.send>>
            /\ current_email' = o.post
            /\ state' = o.next
            /\ pc' = IF o.quit THEN "accept" ELSE "session"
       ELSE /\ sent' = <<>>
            /\ current_email' = o.pre
            /\ state' = state
            /\ pc' = "accept"

\* a variant of Handle in which a session goes on after it has answered QUIT
Handle_after_quit(o, ok) ==
    /\ appended' = o.appended
    /\ IF o.dies
       THEN /\ ok
            /\ sent' = <<>>
            /\ current_email' = o.pre
            /\ state' = state
            /\ pc' = "crashed"
       ELSE IF o.send = <<>>
       THEN /\ ok
            /\ sent' = <<>>
            /\ current_email' = o.post
            /\ state' = o.next
            /\ pc' = pc
       ELSE IF ok
       THEN /\ sent' = <<o.send>>
            /\ current_email' = o.post
            /\ state' = o.next
            /\ pc' = "session"
       ELSE /\ sent' = <<>>
            /\ current_email' = o.pre
            /\ state' = state
            /\ pc' = "accept"

\* what a handled line o does to the session; a line that sends nothing
\* cannot fail, a failed send ends the session before the state is assigned,
\* and a line whose classification raised ends the process
Handle(o, ok) ==
    /\ appended' = o.appended
    /\ IF o.dies
       THEN /\ ok
            /\ sent' = <<>>
            /\ current_email' = o.pre
            /\ state' = state
            /\ pc' = "crashed"
       ELSE IF o.send = <<>>
       THEN /\ ok
            /\ sent' = <<>>
            /\ current_email' = o.post
            /\ state' = o.next
            /\ pc' = pc
       ELSE IF ok
       THEN /\ sent' = <<o.send>>
            /\ current_email' = o.post
            /\ state' = o.next
            /\ pc' = IF o.quit THEN "accept" ELSE "session"
       ELSE /\ sent' = <<>>
            /\ current_email' = o.pre
            /\ state' = state
            /\ pc' = "accept"

\* the same, for transactions within the bounds
Effect(o, ok) ==
    /\ Len(o.post.forward_paths) <= MaxFwd
    /\ Len(o.post.message_lines) <= MaxData
    /\ Handle(o, ok)

\* the buffer holds a complete line: it is taken off the buffer and handled
\* in the current state; ok tells whether the send of the response succeeds
ProcessLine(ok) ==
    /\ pc = "session"
    /\ contains_complete_msg(sock_stream_rem_string)
    /\ UNCHANGED <<cvars, pvars, wvars>>
    /\ sock_stream_rem_string' = after_msg(sock_stream_rem_string)
    /\ Effect(Line(state, current_email, get_msg(sock_stream_rem_string)), ok)

\* the forward files a data block that ends is written to
ForwardFiles(email) == DOMAIN Delivery(email)

\* Text on its way to a file or a connection is bytes.  A byte of an ASCII
\* character is written as that character; "C3" and "A9" are the two bytes
\* of the UTF-8 encoding of one character that is not ASCII, which as text
\* is written "U+E9".
Utf8Lead == {"C3"}
Utf8Continuation == {"A9"}

\* the positions of the bytes that are no part of a character: a lead byte
\* without its continuation byte, a continuation byte without its lead byte
Stray(bytes) ==
    {i \in 1..Len(bytes) :
        \/ /\ bytes[i] \in Utf8Lead
           /\ ~(i < Len(bytes) /\ bytes[i + 1] \in Utf8Continuation)
        \/ /\ bytes[i] \in Utf8Continuation
           /\ ~(i > 1 /\ bytes[i - 1] \in Utf8Lead)}

\* bytes.decode() returns: no byte is stray
Decodable(bytes) == Stray(bytes) = {}

StartsCharacter(byte) == byte \notin Utf8Continuation

\* the character a byte sequence that starts with byte encodes
Character(byte) == IF byte \in Utf8Lead THEN "U+E9" ELSE byte

\* what bytes.decode() returns then: one character for each byte sequence
CharacterStarts(bytes) == SelectSeq(bytes, StartsCharacter)

decode(bytes) ==
    [i \in 1..Len(CharacterStarts(bytes)) |->
        Character(CharacterStarts(bytes)[i])]

\* str.encode(): each character gives its first byte and, when it has
\* one, its second byte
FirstByte(character) == IF character = "U+E9" THEN "C3" ELSE character

SecondByte(character) == IF character = "U+E9" THEN "A9" ELSE ""

IsByte(b) == b # ""

BytePairs(text) ==
    [j \in 1..(2 * Len(text)) |->
        IF j % 2 = 1 THEN FirstByte(text[(j + 1) \div 2])
        ELSE SecondByte(text[j \div 2])]

encode(text) == SelectSeq(BytePairs(text), IsByte)

\* the text a file holds when it is read back: bytes.decode() where that
\* returns, and otherwise (the bytes end inside a character) the characters
\* before the lead byte and then that byte
Shown(bytes) ==
    IF Decodable(bytes) THEN decode(bytes)
    ELSE Append(decode(SubSeq(bytes, 1, Len(bytes) - 1)), bytes[Len(bytes)])

\* the number of bytes forward_file.write puts out for the lines
RECURSIVE ByteLen(_)
ByteLen(lines) ==
    IF lines = <<>> THEN 0
    ELSE Len(encode(Head(lines))) + ByteLen(Tail(lines))

\* what a forward file holds of the lines when the first k bytes of them
\* reached it: the lines that are there whole, then the part of the next
RECURSIVE PartOf(_, _)
PartOf(lines, k) ==
    IF k = 0 \/ lines = <<>> THEN <<>>
    ELSE IF Len(encode(Head(lines))) <= k
    THEN <<Shown(encode(Head(lines)))>>
             \o PartOf(Tail(lines), k - Len(encode(Head(lines))))
    ELSE <<Shown(SubSeq(encode(Head(lines)), 1, k))>>

\* the end-of-data marker is handled and the delivery raises at the forward
\* file ff_name.  Either open raises (the directory forward/ is missing, the
\* file cannot be opened): the file is not opened and takes nothing.  Or
\* open has returned, so that the file is there, and forward_file.write or
\* the close that ends the with block raises (the text cannot be encoded,
\* the file cannot grow) when k bytes of the lines have reached the file,
\* which holds nothing when k = 0.  The files in written, those the loop
\* over the set of names came to before, hold the lines whole.  The error is
\* not a SocketError: nothing catches it and the server process ends, with
\* no response sent and the transaction kept
WriteFails(written, ff_name, opened, k) ==
    /\ pc = "session"
    /\ contains_complete_msg(sock_stream_rem_string)
    /\ state = STATE_4
    /\ get_msg(sock_stream_rem_string) = EOMD_SEQ
    /\ opened \in BOOLEAN
    /\ ~opened => k = 0
    /\ ff_name \in ForwardFiles(current_email)
    /\ written \subseteq ForwardFiles(current_email) \ {ff_name}
    /\ k \in 0..ByteLen(Delivery(current_email)[ff_name])
    /\ sock_stream_rem_string' = after_msg(sock_stream_rem_string)
    /\ appended' =
           [n \in written \cup (IF opened THEN {ff_name} ELSE {}) |->
               IF n = ff_name THEN PartOf(Delivery(current_email)[n], k)
               ELSE Delivery(current_email)[n]]
    /\ sent' = <<>>
    /\ pc' = "crashed"
    /\ UNCHANGED <<state, current_email>>

DeliveryError(written, ff_name, opened, k) ==
    /\ WriteFails(written, ff_name, opened, k)
    /\ UNCHANGED <<cvars, pvars, wvars>>

\* the end-of-data marker is the line to handle
EndOfData ==
    /\ pc = "session"
    /\ contains_complete_msg(sock_stream_rem_string)
    /\ state = STATE_4
    /\ get_msg(sock_stream_rem_string) = EOMD_SEQ

\* the most bytes a file is let take before the delivery to it fails
MaxCut == 4

\* the delivery fails at some file after some bytes
DeliveryFails ==
    /\ EndOfData
    /\ \E ff_name \in ForwardFiles(current_email), opened \in BOOLEAN :
          \E written \in SUBSET (ForwardFiles(current_email) \ {ff_name}),
             k \in IF opened THEN 0..MaxCut ELSE {0} :
               DeliveryError(written, ff_name, opened, k)

Next ==
    \/ \E ok \in BOOLEAN : Accept(ok)
    \/ \E chunk \in Chunks : Receive(chunk)
    \/ ReceiveError
    \/ \E ok \in BOOLEAN : ProcessLine(ok)
    \/ DeliveryFails

Spec == Init /\ [][Next]_vars

(***************************************************************************)
(* The same server fed by a connection that delivers the client's text in  *)
(* pieces: one recv returns part of a line, or several lines and the start *)
(* of the next.                                                            *)
(***************************************************************************)
K_HELO_MAIL_RC ==
    <<"H", "E", "L", "O", " ", "a", "\n", "M", "A", "I", "L", " ", "F", "R",
    "O", "M", ":", "<", "a", "@", "x", ">", "\n", "R", "C">>
K_PT_DATA_x ==
    <<"P", "T", " ", "T", "O", ":", "<", "b", "@", "y", ">", "\n", "D", "A",
    "T", "A", "\n", "x">>
K_y_DOT_QU ==
    <<"y", "\n", ".", "\n", "Q", "U">>
K_IT ==
    <<"I", "T", "\n">>
K_NL ==
    <<"\n">>
K_HE ==
    <<"H", "E">>
K_LO ==
    <<"L", "O", " ", "a", "\n">>

\* what one recv returns
Fragments == {K_HELO_MAIL_RC, K_PT_DATA_x, K_y_DOT_QU, K_IT, K_NL, K_HE, K_LO}

\* the longest text the buffer is let grow to
MaxBuf == 28

ReceiveFragment(chunk) ==
    /\ Len(sock_stream_rem_string) + Len(chunk) <= MaxBuf
    /\ Receive(chunk)

NextFraming ==
    \/ \E ok \in BOOLEAN : Accept(ok)
    \/ \E chunk \in Fragments : ReceiveFragment(chunk)
    \/ ReceiveError
    \/ \E ok \in BOOLEAN : ProcessLine(ok)
    \/ DeliveryFails

SpecFraming == Init /\ [][NextFraming]_vars

(***************************************************************************)
(* The same server with a client that does not wait for the responses: one *)
(* recv returns several whole command lines, a QUIT among them.            *)
(***************************************************************************)
\* QUIT awaited as HELO, with two commands behind it
B_QUIT_FIRST == L_QUIT \o L_HELO \o L_MAIL_A

\* QUIT after HELO, with a bad QUIT before it and a transaction behind it
B_QUIT_EARLY ==
    L_HELO \o L_QUIT_BAD \o L_QUIT \o L_MAIL_A \o L_RCPT_B \o L_DATA
    \o L_DOTDOT \o EOMD_SEQ

\* QUIT after the recipients, with the data of the transaction behind it
B_QUIT_LATE ==
    L_HELO \o L_MAIL_A \o L_RCPT_B \o L_QUIT \o L_DATA \o L_DOTDOT
    \o EOMD_SEQ \o L_QUIT

\* QUIT as a line of the message, then QUIT after the transaction
B_QUIT_IN_DATA ==
    L_HELO \o L_MAIL_A \o L_RCPT_B \o L_DATA \o L_QUIT \o EOMD_SEQ
    \o L_QUIT \o L_HELO

\* what one recv returns: a batch of lines, or a piece of a line
Batches == {B_QUIT_FIRST, B_QUIT_EARLY, B_QUIT_LATE, B_QUIT_IN_DATA}

Pieces == {K_HE, K_LO, K_IT}

NextBatch ==
    \/ \E ok \in BOOLEAN : Accept(ok)
    \/ \E chunk \in Batches : Receive(chunk)
    \/ \E chunk \in Pieces : ReceiveFragment(chunk)
    \/ ReceiveError
    \/ \E ok \in BOOLEAN : ProcessLine(ok)
    \/ DeliveryFails

SpecBatch == Init /\ [][NextBatch]_vars

(***************************************************************************)
(* The same server with a client that may close its end of the connection  *)
(* at any moment of a session, in good order (a recv that raises is left   *)
(* to Spec).  client_socket is the client's end of the                     *)
(* connection the server holds or is about to accept; once it is closed    *)
(* every recv of the server returns zero bytes.                            *)
(***************************************************************************)
K_RC == <<"R", "C">>

\* what one recv returns while the client's end is open: whole lines, or
\* the start of a line
HangupChunks == {L_HELO, L_MAIL_A, L_RCPT_B, L_DATA, EOMD_SEQ, L_QUIT, K_RC}

\* the longest unterminated text after which the client still sends more
MaxTail == 2

HangupInit ==
    /\ ServerIdle
    /\ CursorIdle
    /\ WireIdle
    /\ client_pc = "idle"
    /\ client_email = Email
    /\ client_socket = "open"
    /\ client_i = 0
    /\ client_log = <<>>
    /\ client_raised = "none"

HangupAccept(ok) == client_socket = "open" /\ Accept(ok)

\* the next client connects while the server waits in accept()
PeerConnects ==
    /\ pc = "accept"
    /\ client_socket = "closed"
    /\ client_socket' = "open"
    /\ UNCHANGED <<client_pc, client_email, client_i, client_log, client_raised>>
    /\ UNCHANGED <<svars, pvars, wvars>>

\* the client closes its end in the middle of a session
PeerCloses ==
    /\ pc = "session"
    /\ client_socket = "open"
    /\ client_socket' = "closed"
    /\ UNCHANGED <<client_pc, client_email, client_i, client_log, client_raised>>
    /\ UNCHANGED <<svars, pvars, wvars>>

ReceiveFromPeer(chunk) ==
    /\ client_socket = "open"
    /\ Len(sock_stream_rem_string) <= MaxTail
    /\ Receive(chunk)

\* recv on a connection the client has closed returns b"": the empty text
\* is appended and the loop goes round
ReceiveZero == client_socket = "closed" /\ Receive(<<>>)

HangupNext ==
    \/ \E ok \in BOOLEAN : HangupAccept(ok)
    \/ PeerConnects
    \/ PeerCloses
    \/ \E chunk \in HangupChunks : ReceiveFromPeer(chunk)
    \/ ReceiveZero
    \/ \E ok \in BOOLEAN : ProcessLine(ok)
    \/ DeliveryFails

\* the server does not pause in its loop: while reading from the closed
\* connection changes anything, it reads
SpecHangup == HangupInit /\ [][HangupNext]_vars /\ WF_vars(ReceiveZero)

(***************************************************************************)
(* The same server fed the text of one mail, cut into pieces at any        *)
(* places: how much of the text the client has sent is what the session    *)
(* has handled plus what the buffer holds.                                 *)
(***************************************************************************)
S_HELO ==
    <<"H", "E", "L", "O", " ", "c", "l", "i", "e", "n", "t", ".", "e", "x",
    "a", "m", "p", "l", "e", "\n">>

S_MAIL ==
    <<"M", "A", "I", "L", " ", "F", "R", "O", "M", ":", "<", "a", "@", "x",
    ".", "c", "o", "m", ">", "\n">>

S_RCPT ==
    <<"R", "C", "P", "T", " ", "T", "O", ":", "<", "b", "@", "y", ".", "c",
    "o", "m", ">", "\n">>

S_HELLO ==
    <<"H", "e", "l", "l", "o", " ", "w", "o", "r", "l", "d", "\n">>

ScenarioLines == <<S_HELO, S_MAIL, S_RCPT, L_DATA, S_HELLO, EOMD_SEQ>>

ScenarioText == S_HELO \o S_MAIL \o S_RCPT \o L_DATA \o S_HELLO \o EOMD_SEQ

\* the number of lines of the text the session has handled
ScenarioHandled ==
    CASE state = STATE_0 -> 0
      [] state = STATE_1 -> IF sent = <<OK_250_MSG>> THEN 6 ELSE 1
      [] state = STATE_2 -> 2
      [] state = STATE_3 -> 3
      [] state = STATE_4 -> 4 + Len(current_email.message_lines)

RECURSIVE LenUpTo(_)
LenUpTo(k) == IF k = 0 THEN 0 ELSE LenUpTo(k - 1) + Len(ScenarioLines[k])

\* the number of characters of the text the server has received
ScenarioReceived == LenUpTo(ScenarioHandled) + Len(sock_stream_rem_string)

\* recv returns the next n characters of the text
ScenarioReceive(n) ==
    /\ ScenarioReceived + n <= Len(ScenarioText)
    /\ Receive(SubSeq(ScenarioText, ScenarioReceived + 1, ScenarioReceived + n))

ScenarioNext ==
    \/ \E ok \in BOOLEAN : Accept(ok)
    \/ \E n \in 1..Len(ScenarioText) : ScenarioReceive(n)
    \/ \E ok \in BOOLEAN : ProcessLine(ok)
    \/ DeliveryFails

SpecScenario == Init /\ [][ScenarioNext]_vars

(***************************************************************************)
(* A cursor by itself: a RemainingString made of some text, and consume    *)
(* called on it with the patterns of parse.py, in any order and as often   *)
(* as one likes, also after a call that raised.                            *)
(***************************************************************************)
CursorInputs ==
    {L_MAIL_B, L_HELO, L_RCPT_C, OK_250_MSG, <<>>, <<" ", "\t">>,
     <<"a", ".", "b", "1", ".", "2", "c", ">", "\n">>,
     <<"x", "1", ".", "y", "@", "z", " ", "\n">>}

CursorRegexps ==
    {Lit(<<"H", "E", "L", "O">>), Lit(<<"M", "A", "I", "L">>),
     Lit(<<"F", "R", "O", "M", ":">>), Lit(<<"<">>), Lit(<<">">>),
     Lit(<<"@">>), Lit(<<"\n">>), Lit(<<"2", "5", "0">>),
     RE_WHITESPACE, RE_NULLSPACE, RE_DOMAIN, RE_STRING, RE_ARBITRARY}

\* RemainingString(initial_string)
CursorInit ==
    /\ ServerIdle
    /\ ClientIdle
    /\ WireIdle
    /\ cursor_input \in CursorInputs
    /\ cursor_rs = cursor_input
    /\ cursor_regexp = Lit(<<>>)
    /\ cursor_exc = "none"

\* consume(regexp, rs)
Consume(regexp) ==
    /\ cursor_rs' = consume(regexp, cursor_rs).rs
    /\ cursor_exc' = consume(regexp, cursor_rs).exc
    /\ cursor_regexp' = regexp
    /\ UNCHANGED cursor_input
    /\ UNCHANGED <<svars, cvars, wvars>>

CursorNext == \E regexp \in CursorRegexps : Consume(regexp)

SpecCursor == CursorInit /\ [][CursorNext]_vars

(***************************************************************************)
(* The same server read from a connection on which a client has written a  *)
(* whole text at once: each recv returns any number of the bytes that are  *)
(* waiting, and the session decodes what it returned before it appends it  *)
(* to the buffer.  A byte of an ASCII character is written as that         *)
(* character; "C3" and "A9" are the two bytes of the UTF-8 encoding of one *)
(* character that is not ASCII, which as text is written "U+E9".  Every    *)
(* send of the server succeeds.                                            *)
(***************************************************************************)
L_CAFE == <<"c", "a", "f", "C3", "A9", "\n">>

\* one mail whose data line holds a character that is not ASCII, then QUIT
W_CAFE ==
    L_HELO \o L_MAIL_A \o L_RCPT_B \o L_DATA \o L_CAFE \o EOMD_SEQ \o L_QUIT

\* commands out of sequence and malformed among those of one mail for two
\* recipients, and the start of a line after it
W_TWO ==
    L_HELO \o L_RCPT_B \o L_MAIL_A \o L_RCPT_BAD \o L_RCPT_B \o L_RCPT_C
        \o L_DATA \o L_DOTDOT \o EOMD_SEQ \o <<"Q", "U">>

\* a QUIT with lines behind it
W_QUIT == L_HELO_BARE \o L_QUIT \o L_HELO \o L_MAIL_A

\* the texts a client writes
WireStreams == {W_CAFE, W_TWO, W_QUIT}

WireInit ==
    /\ ServerIdle
    /\ ClientIdle
    /\ CursorIdle
    /\ wire_up \in WireStreams
    /\ wire_down = <<>>
    /\ wire_log = <<>>

\* accept() returns the connection of that client and the greeting is sent
WireAccept ==
    /\ pc = "accept"
    /\ wire_down = <<>>
    /\ wire_log = <<>>
    /\ sent' = <<GREETING_220_MSG>>
    /\ appended' = NoFiles
    /\ state' = STATE_0
    /\ current_email' = Email
    /\ sock_stream_rem_string' = <<>>
    /\ pc' = "session"
    /\ wire_down' = <<GREETING_220_MSG>>
    /\ UNCHANGED <<wire_up, wire_log>>
    /\ UNCHANGED <<cvars, pvars>>

\* the buffer holds no complete line: recv returns the first n bytes that
\* are waiting, they decode, and the text is appended
WireReceive(n) ==
    /\ pc = "session"
    /\ ~contains_complete_msg(sock_stream_rem_string)
    /\ n <= Len(wire_up)
    /\ Decodable(SubSeq(wire_up, 1, n))
    /\ sock_stream_rem_string' =
           sock_stream_rem_string \o decode(SubSeq(wire_up, 1, n))
    /\ wire_up' = Drop(wire_up, n)
    /\ sent' = <<>>
    /\ appended' = NoFiles
    /\ UNCHANGED <<pc, state, current_email, wire_down, wire_log>>
    /\ UNCHANGED <<cvars, pvars>>

\* recv returns bytes that do not decode: decode raises UnicodeDecodeError,
\* which is not a SocketError, nothing catches it and the server process ends
WireDecodeError(n) ==
    /\ pc = "session"
    /\ ~contains_complete_msg(sock_stream_rem_string)
    /\ n <= Len(wire_up)
    /\ ~Decodable(SubSeq(wire_up, 1, n))
    /\ pc' = "crashed"
    /\ wire_up' = Drop(wire_up, n)
    /\ sent' = <<>>
    /\ appended' = NoFiles
    /\ UNCHANGED <<state, current_email, sock_stream_rem_string>>
    /\ UNCHANGED <<wire_down, wire_log>>
    /\ UNCHANGED <<cvars, pvars>>

\* the buffer holds a complete line: it is taken off the buffer and handled,
\* and its response, if it has one, is written to the connection
WireProcessLine ==
    /\ pc = "session"
    /\ contains_complete_msg(sock_stream_rem_string)
    /\ sock_stream_rem_string' = after_msg(sock_stream_rem_string)
    /\ Effect(Line(state, current_email, get_msg(sock_stream_rem_string)), TRUE)
    /\ wire_down' = wire_down \o sent'
    /\ wire_log' =
           Append(wire_log, [line |-> get_msg(sock_stream_rem_string),
                             appended |-> appended'])
    /\ UNCHANGED wire_up
    /\ UNCHANGED <<cvars, pvars>>

\* the same with a forward file that cannot be opened or written
WireDeliveryError(written, ff_name, opened, k) ==
    /\ WriteFails(written, ff_name, opened, k)
    /\ wire_log' =
           Append(wire_log, [line |-> get_msg(sock_stream_rem_string),
                             appended |-> appended'])
    /\ UNCHANGED <<wire_up, wire_down>>
    /\ UNCHANGED <<cvars, pvars>>

WireDeliveryFails ==
    /\ EndOfData
    /\ \E ff_name \in ForwardFiles(current_email), opened \in BOOLEAN :
          \E written \in SUBSET (ForwardFiles(current_email) \ {ff_name}),
             k \in IF opened THEN 0..MaxCut ELSE {0} :
               WireDeliveryError(written, ff_name, opened, k)

WireNext ==
    \/ WireAccept
    \/ \E n \in 1..Len(wire_up) : WireReceive(n)
    \/ \E n \in 1..Len(wire_up) : WireDecodeError(n)
    \/ WireProcessLine
    \/ WireDeliveryFails

SpecWire == WireInit /\ [][WireNext]_vars

(***************************************************************************)
(* Vocabulary of the properties                                            *)
(***************************************************************************)
\* a complete line is at the front of the buffer of a running session
LineReady == pc = "session" /\ contains_complete_msg(sock_stream_rem_string)

\* the step takes that line off the buffer and handles it
Handled ==
    LineReady /\ sock_stream_rem_string' = after_msg(sock_stream_rem_string)

\* the line the step handles, and its classification
TheLine == get_msg(sock_stream_rem_string)
Kind == Message(TheLine).msg_type
Valid == ~Message(TheLine).param_arg_error

\* the step tried to send its response and the connection failed
SendFailed == pc' = "accept" /\ sent' = <<>>

\* the step handled the end-of-data marker and a forward file could not be
\* opened or written: the server process has ended
WriteFailed ==
    state = STATE_4 /\ TheLine = EOMD_SEQ /\ pc' = "crashed" /\ sent' = <<>>

Answered(msg) == sent' = <<msg>>

NonData == {STATE_0, STATE_1, STATE_2, STATE_3}

\* the command kinds a state expects
Expected(st) ==
    CASE st = STATE_0 -> {HELO}
      [] st = STATE_1 -> {MAIL_FROM}
      [] st = STATE_2 -> {RCPT_TO}
      [] st = STATE_3 -> {RCPT_TO, DATA}
      [] OTHER -> {}

FirstIdx(s, c) == Min({i \in 1..Len(s) : s[i] = c})

\* the path "<local@domain>" a well-formed MAIL FROM or RCPT TO line carries
PathIn(line) == SubSeq(line, FirstIdx(line, "<"), FirstIdx(line, ">"))

\* the domain of a path "<local@domain>"
DomainIn(path) == SubSeq(path, FirstIdx(path, "@") + 1, Len(path) - 1)

P_A == <<"<", "a", "@", "x", ">">>
P_B == <<"<", "b", "@", "y", ">">>
P_C == <<"<", "c", "@", "x", ".", "z", ">">>

(***************************************************************************)
(* C1: a well-formed command that is the one expected in the current       *)
(* state is accepted, when its response can be sent, with its success      *)
(* response and its transition: HELO in STATE_0 gives "250 Hello <ip>      *)
(* pleased to meet you" and STATE_1; MAIL FROM in STATE_1 gives "250 OK",  *)
(* stores the reverse-path and gives STATE_2; RCPT TO in STATE_2 or        *)
(* STATE_3 gives "250 OK", appends the forward-path and gives STATE_3;     *)
(* DATA in STATE_3 gives the 354 response and STATE_4.                     *)
(***************************************************************************)
C1_ExpectedCommandAccepted ==
    [][(Handled /\ ~SendFailed /\ state \in NonData /\ Valid
            /\ Kind \in Expected(state))
        => /\ pc' = "session"
           /\ appended' = NoFiles
           /\ CASE Kind = HELO ->
                    /\ Answered(HELO_ACK_250_MSG)
                    /\ state' = STATE_1
                    /\ current_email' = current_email
                [] Kind = MAIL_FROM ->
                    /\ Answered(OK_250_MSG)
                    /\ state' = STATE_2
                    /\ current_email' =
                         [current_email EXCEPT !.reverse_path = PathIn(TheLine)]
                [] Kind = RCPT_TO ->
                    /\ Answered(OK_250_MSG)
                    /\ state' = STATE_3
                    /\ current_email' =
                         [current_email EXCEPT
                            !.forward_paths = Append(@, PathIn(TheLine))]
                [] Kind = DATA ->
                    /\ Answered(START_MAIL_354_MSG)
                    /\ state' = STATE_4
                    /\ current_email' = current_email]_vars

\* HELO, MAIL FROM (with blanks around the path), two RCPT TO and DATA
\* have all been accepted
C1_Witness ==
    /\ pc = "session"
    /\ state = STATE_4
    /\ sent = <<START_MAIL_354_MSG>>
    /\ current_email = [reverse_path |-> P_B, forward_paths |-> <<P_B, P_C>>,
                        message_lines |-> <<>>]

(***************************************************************************)
(* C2 as stated: in every non-data state a recognized line with malformed  *)
(* arguments is answered 501 and the state does not advance, whatever the  *)
(* command kind.                                                           *)
(***************************************************************************)
C2_MalformedAlways501 ==
    [][(Handled /\ ~SendFailed /\ state \in NonData
            /\ Kind # UNRECOGNIZED /\ ~Valid)
        => Answered(SYN_PARAM_ARG_ERR_501_MSG) /\ state' = state]_vars

(***************************************************************************)
(* C2 amended: in every non-data state a recognized line with malformed    *)
(* arguments never advances the state or changes the transaction; it is    *)
(* answered 501 when its kind is the one expected in that state or QUIT,   *)
(* and 503 when it is any other kind.                                      *)
(***************************************************************************)
C2_Malformed501Or503 ==
    [][(Handled /\ ~SendFailed /\ state \in NonData
            /\ Kind # UNRECOGNIZED /\ ~Valid)
        => /\ state' = state
           /\ current_email' = current_email
           /\ pc' = "session"
           /\ IF Kind \in Expected(state) \cup {QUIT}
              THEN Answered(SYN_PARAM_ARG_ERR_501_MSG)
              ELSE Answered(BAD_SEQ_COM_ERR_503_MSG)]_vars

\* a malformed command was answered 501 in STATE_3, after two RCPT TO
C2_Witness ==
    /\ pc = "session"
    /\ state = STATE_3
    /\ sent = <<SYN_PARAM_ARG_ERR_501_MSG>>
    /\ Len(current_email.forward_paths) = 2

(***************************************************************************)
(* C3: a well-formed QUIT line received in any of the five states,         *)
(* STATE_4 included, makes the server send the 221 response, close the     *)
(* connection and end the session.                                         *)
(***************************************************************************)
C3_QuitEndsSession ==
    [][(Handled /\ ~SendFailed /\ Kind = QUIT /\ Valid)
        => Answered(CLOS_CON_221_MSG) /\ pc' = "accept"]_vars

(***************************************************************************)
(* C4: a QUIT line with malformed trailing content received in any state   *)
(* is answered 501, and the state and the transaction are unchanged.       *)
(***************************************************************************)
C4_MalformedQuitRejected ==
    [][(Handled /\ ~SendFailed /\ Kind = QUIT /\ ~Valid)
        => /\ Answered(SYN_PARAM_ARG_ERR_501_MSG)
           /\ state' = state
           /\ current_email' = current_email]_vars

(***************************************************************************)
(* C5: in STATE_4 no line is classified: the line ".\n" ends the data      *)
(* block and is never stored; every other line, a well-formed command or   *)
(* ". \n" or "..\n" included, is appended verbatim to the end of the data  *)
(* lines, with no response sent and the state unchanged.                   *)
(***************************************************************************)
C5_DataLinesVerbatim ==
    /\ [][(Handled /\ state = STATE_4)
            => IF TheLine = EOMD_SEQ
               THEN /\ current_email'.message_lines
                          \in {<<>>, current_email.message_lines}
                    /\ SendFailed \/ WriteFailed \/ state' = STATE_1
               ELSE /\ sent' = <<>>
                    /\ appended' = NoFiles
                    /\ pc' = "session"
                    /\ state' = STATE_4
                    /\ current_email' =
                         [current_email EXCEPT
                            !.message_lines = Append(@, TheLine)]]_vars
    /\ [](\A i \in 1..Len(current_email.message_lines) :
            current_email.message_lines[i] # EOMD_SEQ)

\* a QUIT line and then "..\n" were stored as data
C5_Witness ==
    /\ pc = "session"
    /\ state = STATE_4
    /\ sent = <<>>
    /\ current_email.message_lines = <<L_QUIT, L_DOTDOT>>

(***************************************************************************)
(* C6: in every non-data state a recognized command whose kind is neither  *)
(* the one expected in that state nor QUIT is answered 503, and the        *)
(* state and the transaction are unchanged.                                *)
(***************************************************************************)
C6_BadSequence ==
    [][(Handled /\ ~SendFailed /\ state \in NonData
            /\ Kind \notin Expected(state) \cup {QUIT, UNRECOGNIZED})
        => /\ Answered(BAD_SEQ_COM_ERR_503_MSG)
           /\ state' = state
           /\ current_email' = current_email
           /\ appended' = NoFiles
           /\ pc' = "session"]_vars

\* a command was answered 503 in STATE_2, the reverse-path already stored
C6_Witness ==
    /\ pc = "session"
    /\ state = STATE_2
    /\ sent = <<BAD_SEQ_COM_ERR_503_MSG>>
    /\ current_email.reverse_path = P_A

(***************************************************************************)
(* C7: in every non-data state an unrecognized line is answered 500; the   *)
(* state and the transaction are unchanged and the session stays open,     *)
(* ready for the next line.                                                *)
(***************************************************************************)
C7_Unrecognized ==
    [][(Handled /\ ~SendFailed /\ state \in NonData /\ Kind = UNRECOGNIZED)
        => /\ Answered(SYN_COM_UNREC_ERR_500_MSG)
           /\ state' = state
           /\ current_email' = current_email
           /\ appended' = NoFiles
           /\ pc' = "session"]_vars

\* a line was answered 500 in STATE_3 and the transaction is still there
C7_Witness ==
    /\ pc = "session"
    /\ state = STATE_3
    /\ sent = <<SYN_COM_UNREC_ERR_500_MSG>>
    /\ current_email = [reverse_path |-> P_A, forward_paths |-> <<P_C>>,
                        message_lines |-> <<>>]

(***************************************************************************)
(* C8: the end-of-data marker in STATE_4 delivers the transaction to the   *)
(* forward file of each recipient domain, is answered "250 OK", and        *)
(* leaves STATE_1 with a fresh empty transaction; a well-formed MAIL FROM  *)
(* in STATE_1 is accepted without a new HELO, and the transaction it       *)
(* opens holds its own reverse-path and nothing else.                      *)
(***************************************************************************)
C8_FreshTransactionAfterData ==
    /\ [][(Handled /\ ~SendFailed /\ state = STATE_4 /\ TheLine = EOMD_SEQ)
            => /\ Answered(OK_250_MSG)
               /\ pc' = "session"
               /\ state' = STATE_1
               /\ current_email' = Email
               /\ appended' # NoFiles
               /\ DOMAIN appended' =
                    {FORWARD_DIR \o DomainIn(current_email.forward_paths[i]) :
                        i \in 1..Len(current_email.forward_paths)}]_vars
    /\ [][(Handled /\ ~SendFailed /\ state = STATE_1
                /\ Kind = MAIL_FROM /\ Valid)
            => /\ Answered(OK_250_MSG)
               /\ state' = STATE_2
               /\ current_email' =
                    [reverse_path |-> PathIn(TheLine), forward_paths |-> <<>>,
                     message_lines |-> <<>>]]_vars

\* a data block has just been delivered and acknowledged
C8_Witness ==
    /\ pc = "session"
    /\ state = STATE_1
    /\ sent = <<OK_250_MSG>>
    /\ DOMAIN appended = {FORWARD_DIR \o <<"y">>, FORWARD_DIR \o <<"x", ".", "z">>}
    /\ current_email = Email

(***************************************************************************)
(* C9: when a data block ends, one record is appended to the forward file  *)
(* of each distinct recipient domain and to no other file, and the record  *)
(* contains the reverse-path, every forward-path and then all the data     *)
(* lines in their original order.                                          *)
(***************************************************************************)
\* text occurs inside one of the lines
Occurs(text, lines) ==
    \E i \in 1..Len(lines) : \E k \in 0..(Len(lines[i]) - Len(text)) :
        SubSeq(lines[i], k + 1, k + Len(text)) = text

\* the record ends with the data lines, after at least one line for the
\* reverse-path and one for each forward-path
IsRecordOf(lines, email) ==
    LET n == Len(lines) - Len(email.message_lines)
    IN  /\ n >= 1 + Len(email.forward_paths)
        /\ SubSeq(lines, n + 1, Len(lines)) = email.message_lines
        /\ Occurs(email.reverse_path, SubSeq(lines, 1, n))
        /\ \A i \in 1..Len(email.forward_paths) :
              Occurs(email.forward_paths[i], SubSeq(lines, 1, n))

C9_RecordPerDomain ==
    [][(Handled /\ state = STATE_4 /\ TheLine = EOMD_SEQ)
        => /\ DOMAIN appended' =
                {FORWARD_DIR \o DomainIn(current_email.forward_paths[i]) :
                    i \in 1..Len(current_email.forward_paths)}
           /\ \A n \in DOMAIN appended' :
                IsRecordOf(appended'[n], current_email)]_vars

(***************************************************************************)
(* C10: in STATE_3 every well-formed RCPT TO is accepted with "250 OK"     *)
(* and its path is appended to the end of the forward-paths, duplicates    *)
(* kept; no other line adds to or reorders the forward-paths, which are    *)
(* only emptied when a data block has ended.                               *)
(***************************************************************************)
C10_ForwardPathsInArrivalOrder ==
    [][Handled
        => IF state \in {STATE_2, STATE_3} /\ Kind = RCPT_TO /\ Valid
           THEN /\ current_email'.forward_paths =
                     Append(current_email.forward_paths, PathIn(TheLine))
                /\ SendFailed \/ (Answered(OK_250_MSG) /\ state' = STATE_3)
           ELSE IF /\ state = STATE_4 /\ TheLine = EOMD_SEQ
                   /\ ~SendFailed /\ ~WriteFailed
           THEN current_email'.forward_paths = <<>>
           ELSE current_email'.forward_paths = current_email.forward_paths]_vars

\* the same path was accepted twice, a rejected line later
C10_Witness ==
    /\ pc = "session"
    /\ state = STATE_3
    /\ sent = <<SYN_PARAM_ARG_ERR_501_MSG>>
    /\ current_email.forward_paths = <<P_B, P_B>>

(***************************************************************************)
(* The classifier and the grammar on many lines: a session that has        *)
(* reached one of the states STATE_0 .. STATE_3 finds one line in its      *)
(* buffer and handles it.  The line is made of a start (a keyword, a near  *)
(* miss of one, or nothing), a gap, an argument, a tail and the newline.   *)
(***************************************************************************)
\* how a line starts
LineStarts ==
    {<<"H", "E", "L", "O">>,
     <<"H", "E", "L", "O", "X">>,
     <<"h", "e", "l", "o">>,
     <<"M", "A", "I", "L", " ", "F", "R", "O", "M", ":">>,
     <<"M", "A", "I", "L", " ", "\t", "F", "R", "O", "M", ":">>,
     <<"M", "A", "I", "L", "F", "R", "O", "M", ":">>,
     <<"M", "A", "I", "L", " ", "F", "R", "O", "M">>,
     <<"R", "C", "P", "T", " ", "T", "O", ":">>,
     <<"R", "C", "P", "T", " ", " ", "T", "O", ":">>,
     <<"R", "C", "P", "T", " ", "T", "O">>,
     <<"D", "A", "T", "A">>,
     <<"D", "A", "T", "A", "X">>,
     <<"Q", "U", "I", "T">>,
     <<"Q", "U", "I", "T", "X">>,
     <<>>,
     <<" ", "D", "A", "T", "A">>}

\* what separates the start from the argument
LineGaps ==
    {<<>>,
     <<" ">>,
     <<"\t">>}

\* the argument: paths, near misses of a path, other text
LineArguments ==
    {<<>>,
     <<"<", "a", "@", "x", ">">>,
     <<"<", "a", "1", "@", "x", ".", "y", "1", ">">>,
     <<"<", "a", "@", "1", "x", ">">>,
     <<"<", "@", "x", ">">>,
     <<"<", "a", "@", "x">>,
     <<"a", "@", "x">>,
     <<"<", "a", " ", "b", "@", "x", ">">>,
     <<"<", "a", "@", "x", ".", ">">>,
     <<"<", "a", "@", "x", ">", ">">>,
     <<"<", "a", "@", "x", ">", "<", "b", "@", "y", ">">>,
     <<"X">>,
     <<"!", "!", "!">>,
     <<GRAVE>>,
     <<"1", "a", "b", "c">>,
     <<"a", ".", "b">>,
     <<"x", " ", "y">>}

\* what follows the argument
LineTails ==
    {<<>>,
     <<" ">>,
     <<"\t", " ">>,
     <<" ", "x">>}

ClassifiedLines ==
    {s \o g \o a \o t \o <<"\n">> :
        s \in LineStarts, g \in LineGaps, a \in LineArguments, t \in LineTails}

\* the state and the transaction of a session that has accepted nothing,
\* HELO, then MAIL FROM:<a@x>, then RCPT TO:<b@y>
SessionPoints ==
    {[state |-> STATE_0, email |-> Email],
     [state |-> STATE_1, email |-> Email],
     [state |-> STATE_2, email |-> set_reverse_path(Email, P_A)],
     [state |-> STATE_3,
      email |-> add_forward_path(set_reverse_path(Email, P_A), P_B)]}

InitClassify ==
    /\ ClientIdle
    /\ CursorIdle
    /\ WireIdle
    /\ pc = "session"
    /\ sent = <<>>
    /\ appended = NoFiles
    /\ sock_stream_rem_string \in ClassifiedLines
    /\ \E p \in SessionPoints : state = p.state /\ current_email = p.email

NextClassify == \E ok \in BOOLEAN : ProcessLine(ok)

SpecClassify == InitClassify /\ [][NextClassify]_vars

(***************************************************************************)
(* The same session points handling one MAIL FROM or RCPT TO line whose    *)
(* local-part may hold characters that are not printable ASCII: carriage   *)
(* return and form feed.                                                   *)
(***************************************************************************)
ControlLocalParts ==
    {<<"a">>, <<"a", "1">>, <<"a", "\r", "b">>, <<"\f", "a">>, <<"a", "\r">>,
     <<"\r">>, <<"\f", "\r">>, <<"a", " ", "b">>, <<"a", ".", "b">>, <<>>}

ControlLines ==
    {k \o g \o <<"<">> \o l \o <<"@">> \o d \o <<">">> \o t \o <<"\n">> :
        k \in {<<"M", "A", "I", "L", " ", "F", "R", "O", "M", ":">>,
               <<"R", "C", "P", "T", " ", "T", "O", ":">>},
        g \in {<<>>, <<" ">>},
        l \in ControlLocalParts,
        d \in {<<"x">>, <<"y", ".", "z">>},
        t \in {<<>>, <<" ">>}}

InitControl ==
    /\ ClientIdle
    /\ CursorIdle
    /\ WireIdle
    /\ pc = "session"
    /\ sent = <<>>
    /\ appended = NoFiles
    /\ sock_stream_rem_string \in ControlLines
    /\ \E p \in SessionPoints : state = p.state /\ current_email = p.email

SpecControl == InitControl /\ [][NextClassify]_vars

(***************************************************************************)
(* C11: framing, stated on a session that reads a text from a connection   *)
(* in pieces of any length.  In a running session the lines handled so     *)
(* far, the buffer and the bytes not yet received make up, in this order,  *)
(* the text the client wrote, and each line handled is one line: it ends   *)
(* with its only newline.  When the buffer holds a newline the step reads  *)
(* nothing from the connection and handles one more line, the text at the  *)
(* front of the buffer, which it removes and nothing else (in STATE_4 as   *)
(* in the other states).  When the buffer holds no newline the step        *)
(* handles nothing: it sends nothing, leaves state and transaction alone,  *)
(* and the buffer only grows at its end.                                   *)
(***************************************************************************)
\* the text ends with a newline and holds no other
IsOneLine(text) ==
    /\ Len(text) >= 1
    /\ text[Len(text)] = "\n"
    /\ \A i \in 1..(Len(text) - 1) : text[i] # "\n"

\* the lines of a log, one after the other
RECURSIVE JoinLines(_)
JoinLines(log) ==
    IF log = <<>> THEN <<>> ELSE Head(log).line \o JoinLines(Tail(log))

C11_Framing ==
    /\ [](pc = "session" =>
            /\ encode(JoinLines(wire_log) \o sock_stream_rem_string) \o wire_up
                  \in WireStreams
            /\ \A i \in 1..Len(wire_log) : IsOneLine(wire_log[i].line))
    /\ [][pc = "session"
            => IF "\n" \in Range(sock_stream_rem_string)
               THEN /\ wire_up' = wire_up
                    /\ Len(wire_log') = Len(wire_log) + 1
                    /\ SubSeq(wire_log', 1, Len(wire_log)) = wire_log
                    /\ sock_stream_rem_string =
                          wire_log'[Len(wire_log')].line
                              \o sock_stream_rem_string'
               ELSE /\ wire_log' = wire_log
                    /\ IsPrefix(sock_stream_rem_string,
                                sock_stream_rem_string')
                    /\ sent' = <<>>
                    /\ appended' = NoFiles
                    /\ UNCHANGED <<state, current_email>>]_vars

\* the whole of a text that ends inside a line has been received: its nine
\* lines have been handled, one after the other, and the unterminated tail
\* waits in the buffer
C11_Witness ==
    /\ pc = "session"
    /\ wire_up = <<>>
    /\ Len(wire_log) = 9
    /\ wire_log[9].line = EOMD_SEQ
    /\ sock_stream_rem_string = <<"Q", "U">>

(***************************************************************************)
(* Vocabulary of the grammar claims: what the grammar of the commands      *)
(* says of a line, stated on the text of the line.  A line here is the     *)
(* text of one message: it ends with its only newline.                     *)
(***************************************************************************)
KW_HELO == <<"H", "E", "L", "O">>
KW_MAIL == <<"M", "A", "I", "L">>
KW_FROM == <<"F", "R", "O", "M", ":">>
KW_RCPT == <<"R", "C", "P", "T">>
KW_TO == <<"T", "O", ":">>
KW_DATA == <<"D", "A", "T", "A">>
KW_QUIT == <<"Q", "U", "I", "T">>
KW_MAIL_FROM == KW_MAIL \o <<" ">> \o KW_FROM
KW_RCPT_TO == KW_RCPT \o <<" ">> \o KW_TO

\* every character of s is a space or a tab
AllSP(s) == \A i \in 1..Len(s) : s[i] \in SP

Specials ==
    {"<", ">", "(", ")", "[", "]", "\\", ".", ",", ";", ":", "@", "\""}

\* a local-part: printable characters, none of them special or a space
IsLocalPart(s) ==
    /\ Len(s) > 0
    /\ \A i \in 1..Len(s) : s[i] \in Printable \ (Specials \cup {" "})

\* a domain: elements separated by ".", each a letter followed by letters
\* and digits
IsDomain(s) ==
    /\ Len(s) > 0
    /\ s[1] \in Letter
    /\ s[Len(s)] # "."
    /\ \A i \in 1..Len(s) : s[i] \in LetDig \cup {"."}
    /\ \A i \in 1..(Len(s) - 1) : s[i] = "." => s[i + 1] \in Letter

\* s is "<local@domain>"
IsPathText(s) ==
    /\ Len(s) >= 5
    /\ s[1] = "<"
    /\ s[Len(s)] = ">"
    /\ \E k \in 3..(Len(s) - 2) :
          /\ s[k] = "@"
          /\ IsLocalPart(SubSeq(s, 2, k - 1))
          /\ IsDomain(SubSeq(s, k + 1, Len(s) - 1))

\* the keyword kw starts the line and a space, a tab or the newline follows
BareKeywordAt(kw, line) ==
    IsPrefix(kw, line) /\ line[Len(kw) + 1] \in {" ", "\t", "\n"}

\* the keyword kw starts the line and another character follows at once
GluedKeywordAt(kw, line) ==
    /\ IsPrefix(kw, line)
    /\ Len(line) > Len(kw)
    /\ line[Len(kw) + 1] \notin {" ", "\t", "\n"}

\* the positions where the keyword "first <whitespace> second" ends
TwoWordEnds(first, second, line) ==
    {n \in 1..Len(line) :
        \E w \in 1..Len(line) :
            /\ n = Len(first) + w + Len(second)
            /\ IsPrefix(first, line)
            /\ AllSP(SubSeq(line, Len(first) + 1, Len(first) + w))
            /\ SubSeq(line, Len(first) + w + 1, n) = second}

\* from position i to j the line holds a path, with nothing but spaces and
\* tabs between position n and the path and between the path and the newline
PathArgumentAt(line, n, i, j) ==
    /\ AllSP(SubSeq(line, n + 1, i - 1))
    /\ IsPathText(SubSeq(line, i, j))
    /\ AllSP(SubSeq(line, j + 1, Len(line) - 1))

\* after position n the line holds optional whitespace, one path, optional
\* whitespace and the newline
WellFormedPathArgument(line, n) ==
    \E i \in (n + 1)..Len(line) : \E j \in i..(Len(line) - 1) :
        PathArgumentAt(line, n, i, j)

\* after position n the line holds optional whitespace and the newline
WellFormedNoArgument(line, n) == AllSP(SubSeq(line, n + 1, Len(line) - 1))

\* the grammars of the five commands run on the line a session is about to
\* handle
Grammars ==
    {parse_helo_msg(TheLine), parse_mail_from_cmd(TheLine),
     parse_rcpt_to_cmd(TheLine), parse_data_cmd(TheLine),
     parse_quit_cmd(TheLine)}

(***************************************************************************)
(* C12: classification is total.  For every line a session handles, each   *)
(* command grammar returns or raises MessageParsingError or                *)
(* ParameterArgumentParsingError and nothing else, and Message(line) is    *)
(* constructed, with one kind among the six; the server is never ended by  *)
(* a classification.                                                       *)
(***************************************************************************)
C12_ClassificationTotal ==
    /\ pc # "crashed"
    /\ LineReady
        => /\ \A g \in Grammars :
                g.exc \in {"none", "MessageParsingError",
                           "ParameterArgumentParsingError"}
           /\ Message(TheLine).raised = "none"
           /\ Kind \in {UNRECOGNIZED, HELO, MAIL_FROM, RCPT_TO, DATA, QUIT}
           /\ Message(TheLine).param_arg_error \in BOOLEAN

\* a line whose path lacks its ">" fails deep in the grammar, at the ">"
\* of the path production, and is classified all the same
C12_Witness ==
    /\ LineReady
    /\ TheLine = KW_MAIL_FROM \o <<"<", "a", "@", "x", "\n">>
    /\ parse_path(<<"<", "a", "@", "x", "\n">>).exc = "ParsingError"
    /\ Message(TheLine) = Msg(MAIL_FROM, TRUE)

(***************************************************************************)
(* C13 as stated: for each of the keywords HELO, MAIL FROM:, RCPT TO:,     *)
(* DATA and QUIT, a line in which the keyword is followed at once by a     *)
(* character other than space, tab and newline is Unrecognized.            *)
(***************************************************************************)
C13_GluedKeywordUnrecognized ==
    LineReady
        => \A kw \in {KW_HELO, KW_MAIL_FROM, KW_RCPT_TO, KW_DATA, KW_QUIT} :
              GluedKeywordAt(kw, TheLine) => Kind = UNRECOGNIZED

(***************************************************************************)
(* C13 as the code has it: the look-ahead belongs to HELO, DATA and QUIT,  *)
(* where a keyword followed at once by another character gives             *)
(* Unrecognized.  After "MAIL FROM:" and "RCPT TO:" the argument may start *)
(* at once: such a line is MailFrom or RcptTo.                             *)
(***************************************************************************)
C13_LookAheadOfBareKeywords ==
    LineReady
        => /\ \A kw \in {KW_HELO, KW_DATA, KW_QUIT} :
                GluedKeywordAt(kw, TheLine) => Kind = UNRECOGNIZED
           /\ GluedKeywordAt(KW_MAIL_FROM, TheLine) => Kind = MAIL_FROM
           /\ GluedKeywordAt(KW_RCPT_TO, TheLine) => Kind = RCPT_TO

\* "MAIL FROM:X" is about to be handled: a MAIL FROM with a bad argument
C13_Witness ==
    /\ LineReady
    /\ TheLine = KW_MAIL_FROM \o <<"X", "\n">>
    /\ Message(TheLine) = Msg(MAIL_FROM, TRUE)

(***************************************************************************)
(* C14: a line whose keyword matches a grammar has the kind of that        *)
(* grammar (HELO, DATA, QUIT followed by a space, a tab or the newline;    *)
(* MAIL <whitespace> FROM: and RCPT <whitespace> TO:), and its arguments   *)
(* are valid exactly when the text after the keyword follows the grammar:  *)
(* optional whitespace, one path "<local@domain>", optional whitespace and *)
(* the newline for MAIL FROM and RCPT TO; optional whitespace and the      *)
(* newline for DATA and QUIT.                                              *)
(***************************************************************************)
C14_ArgumentsValidIffGrammar ==
    LineReady
        => /\ BareKeywordAt(KW_HELO, TheLine) => Kind = HELO
           /\ \A n \in TwoWordEnds(KW_MAIL, KW_FROM, TheLine) :
                /\ Kind = MAIL_FROM
                /\ Valid <=> WellFormedPathArgument(TheLine, n)
           /\ \A n \in TwoWordEnds(KW_RCPT, KW_TO, TheLine) :
                /\ Kind = RCPT_TO
                /\ Valid <=> WellFormedPathArgument(TheLine, n)
           /\ BareKeywordAt(KW_DATA, TheLine)
                => /\ Kind = DATA
                   /\ Valid <=> WellFormedNoArgument(TheLine, Len(KW_DATA))
           /\ BareKeywordAt(KW_QUIT, TheLine)
                => /\ Kind = QUIT
                   /\ Valid <=> WellFormedNoArgument(TheLine, Len(KW_QUIT))

\* a RCPT TO with two blanks in its keyword, a tab before its path and a
\* blank after it is about to be handled, and is valid
C14_Witness ==
    /\ LineReady
    /\ TheLine = KW_RCPT \o <<" ", " ">> \o KW_TO
                 \o <<"\t", "<", "a", "1", "@", "x", ".", "y", "1", ">", " ", "\n">>
    /\ Message(TheLine) = Msg(RCPT_TO, FALSE)
(***************************************************************************)
(* C15 as stated: a line made of HELO, optional spaces and tabs and the    *)
(* newline is a Helo with valid arguments; in STATE_0 it is answered       *)
(* "250 Hello ..." and the session goes to STATE_1.                        *)
(***************************************************************************)
BareHelo(line) ==
    IsPrefix(KW_HELO, line) /\ WellFormedNoArgument(line, Len(KW_HELO))

C15_BareHeloAccepted ==
    [][(Handled /\ ~SendFailed /\ state \in NonData /\ BareHelo(TheLine))
        => /\ Kind = HELO
           /\ Valid
           /\ state = STATE_0
                => Answered(HELO_ACK_250_MSG) /\ state' = STATE_1]_vars

(***************************************************************************)
(* C15 as the code has it: HELO asks for whitespace and an argument of at  *)
(* least one printable character.  A line made of HELO, optional spaces    *)
(* and tabs and the newline is a Helo whose arguments are not valid; in    *)
(* STATE_0 it is answered 501 and the session stays in STATE_0 with its    *)
(* transaction as it was.                                                  *)
(***************************************************************************)
C15_BareHeloRejected ==
    [][(Handled /\ ~SendFailed /\ state \in NonData /\ BareHelo(TheLine))
        => /\ Kind = HELO
           /\ ~Valid
           /\ state = STATE_0
                => /\ Answered(SYN_PARAM_ARG_ERR_501_MSG)
                   /\ state' = STATE_0
                   /\ current_email' = current_email
                   /\ pc' = "session"]_vars

\* a session in STATE_0 is about to handle "HELO", a blank, a tab, a blank
\* and the newline: a Helo with a parameter error, which STATE_0 answers 501
C15_Witness ==
    /\ LineReady
    /\ state = STATE_0
    /\ TheLine = KW_HELO \o <<" ", "\t", " ", "\n">>
    /\ Message(TheLine) = Msg(HELO, TRUE)
    /\ Line(state, current_email, TheLine)
         = Reply(SYN_PARAM_ARG_ERR_501_MSG, current_email, STATE_0)

(***************************************************************************)
(* C16: a HELO line that carries an argument is well-formed only if the    *)
(* argument is a domain followed by optional whitespace and the newline;   *)
(* with another argument it is a Helo whose arguments are not valid.       *)
(***************************************************************************)
\* after HELO the line holds whitespace, a domain, optional whitespace and
\* the newline
WellFormedDomainArgument(line) ==
    \E i \in (Len(KW_HELO) + 2)..Len(line) : \E j \in i..(Len(line) - 1) :
        /\ AllSP(SubSeq(line, Len(KW_HELO) + 1, i - 1))
        /\ IsDomain(SubSeq(line, i, j))
        /\ AllSP(SubSeq(line, j + 1, Len(line) - 1))

C16_HeloArgumentIsDomain ==
    (LineReady /\ BareKeywordAt(KW_HELO, TheLine) /\ ~BareHelo(TheLine))
        => /\ Kind = HELO
           /\ Valid => WellFormedDomainArgument(TheLine)

(***************************************************************************)
(* C17: the path round trip.  When a session in STATE_1 handles a line     *)
(* made of MAIL <whitespace> FROM:, optional whitespace, a path            *)
(* "<local@domain>", optional whitespace and the newline, and can send its *)
(* response, the path production run on the line from the "<" on returns   *)
(* and leaves exactly what follows the ">", and the reverse-path stored is *)
(* the text "<local@domain>" itself.  The same holds in STATE_2 and        *)
(* STATE_3 for RCPT <whitespace> TO: and the forward-path appended.        *)
(***************************************************************************)
PathParsedExactly(line, i, j) ==
    /\ parse_path(SubSeq(line, i, j)) = Ret(<<>>)
    /\ parse_path(SubSeq(line, i, Len(line)))
         = Ret(SubSeq(line, j + 1, Len(line)))

C17_PathRoundTrip ==
    [][(Handled /\ ~SendFailed)
        => \A i \in 1..Len(TheLine) : \A j \in i..Len(TheLine) :
            /\ \A n \in TwoWordEnds(KW_MAIL, KW_FROM, TheLine) :
                 (state = STATE_1 /\ PathArgumentAt(TheLine, n, i, j))
                    => /\ PathParsedExactly(TheLine, i, j)
                       /\ current_email' =
                            [current_email EXCEPT
                                !.reverse_path = SubSeq(TheLine, i, j)]
            /\ \A n \in TwoWordEnds(KW_RCPT, KW_TO, TheLine) :
                 (state \in {STATE_2, STATE_3}
                    /\ PathArgumentAt(TheLine, n, i, j))
                    => /\ PathParsedExactly(TheLine, i, j)
                       /\ current_email' =
                            [current_email EXCEPT
                                !.forward_paths =
                                    Append(@, SubSeq(TheLine, i, j))]]_vars

\* a RCPT TO line with whitespace on both sides of <a1@x.y1> was accepted
\* in STATE_3: the path is the second forward-path
C17_Witness ==
    /\ pc = "session"
    /\ state = STATE_3
    /\ sent = <<OK_250_MSG>>
    /\ sock_stream_rem_string = <<>>
    /\ current_email.forward_paths =
         <<P_B, <<"<", "a", "1", "@", "x", ".", "y", "1", ">">>>>

(***************************************************************************)
(* The client: the response grammars of parse.py and the messages that     *)
(* Email.send puts on the wire                                             *)
(***************************************************************************)
\* the body shared by parse_220_resp_code_msg .. parse_354_resp_code_msg
RespCodeMsg(code, rs) ==
    LET k == consume_or_ParsingError(Lit(code), rs)
        w == parse_whitespace(k.rs)
        t == parse_arbitrary_text(w.rs)
        c == parse_CRLF(t.rs)
    IN  Then(k, Then(w, Then(t, c)))

parse_220_resp_code_msg(rs) == RespCodeMsg(<<"2", "2", "0">>, rs)
parse_221_resp_code_msg(rs) == RespCodeMsg(<<"2", "2", "1">>, rs)
parse_250_resp_code_msg(rs) == RespCodeMsg(<<"2", "5", "0">>, rs)
parse_354_resp_code_msg(rs) == RespCodeMsg(<<"3", "5", "4">>, rs)

\* parsing_procedure(RemainingString(msg_str)) of _receive_and_validate
parsing_procedure(expected_msg_type, msg_str) ==
    CASE expected_msg_type = "220" -> parse_220_resp_code_msg(msg_str)
      [] expected_msg_type = "221" -> parse_221_resp_code_msg(msg_str)
      [] expected_msg_type = "250" -> parse_250_resp_code_msg(msg_str)
      [] expected_msg_type = "354" -> parse_354_resp_code_msg(msg_str)

\* getfqdn() of the client's run
ClientFqdn == <<"c", "l", ".", "e", "d", "u">>

\* an Email as fill leaves it; attachment tells what the attachment file
\* is to the client: "ok" (a file of a known type), "unknown_type"
\* (mimetypes.guess_type gives None) or "missing" (open fails)
FilledEmail(reverse_path, forward_paths, subject, message_lines, attachment) ==
    [reverse_path |-> reverse_path, forward_paths |-> forward_paths,
     subject |-> subject, message_lines |-> message_lines,
     attachment |-> attachment]

HELO_PREFIX ==
    <<"H", "E", "L", "O", " ">>

MAIL_FROM_PREFIX ==
    <<"M", "A", "I", "L", " ", "F", "R", "O", "M", ":", " ">>

RCPT_TO_PREFIX ==
    <<"R", "C", "P", "T", " ", "T", "O", ":", " ">>

_get_helo_msg == HELO_PREFIX \o ClientFqdn \o <<"\n">>

_get_mail_from_cmd(email) ==
    MAIL_FROM_PREFIX \o email.reverse_path \o <<"\n">>

_get_rcpt_to_cmds(email) ==
    [i \in 1..Len(email.forward_paths) |->
        RCPT_TO_PREFIX \o email.forward_paths[i] \o <<"\n">>]

_get_data_cmd == <<"D", "A", "T", "A", "\n">>

_get_eomd_seq == EOMD_SEQ

_get_quit_cmd == <<"Q", "U", "I", "T", "\n">>

\* ", ".join(paths)
RECURSIVE Join(_)
Join(paths) ==
    IF Len(paths) = 0 THEN <<>>
    ELSE IF Len(paths) = 1 THEN paths[1]
    ELSE paths[1] \o <<",", " ">> \o Join(Tail(paths))

MIME_VERSION_LINE ==
    <<"M", "I", "M", "E", "-", "V", "e", "r", "s", "i", "o", "n", ":", " ",
    "1", ".", "0", "\n">>

MIME_MULTIPART_LINE ==
    <<"C", "o", "n", "t", "e", "n", "t", "-", "T", "y", "p", "e", ":", " ",
    "m", "u", "l", "t", "i", "p", "a", "r", "t", "/", "m", "i", "x", "e",
    "d", ";", " ", "b", "o", "u", "n", "d", "a", "r", "y", "=", "9", "8",
    "7", "6", "6", "7", "8", "9", "\n">>

MIME_BOUNDARY_LINE ==
    <<"-", "-", "9", "8", "7", "6", "6", "7", "8", "9", "\n">>

MIME_QP_LINE ==
    <<"C", "o", "n", "t", "e", "n", "t", "-", "T", "r", "a", "n", "s", "f",
    "e", "r", "-", "E", "n", "c", "o", "d", "i", "n", "g", ":", " ", "q",
    "u", "o", "t", "e", "d", "-", "p", "r", "i", "n", "t", "a", "b", "l",
    "e", "\n">>

MIME_TEXT_LINE ==
    <<"C", "o", "n", "t", "e", "n", "t", "-", "T", "y", "p", "e", ":", " ",
    "t", "e", "x", "t", "/", "p", "l", "a", "i", "n", "\n">>

MIME_BASE64_LINE ==
    <<"C", "o", "n", "t", "e", "n", "t", "-", "T", "r", "a", "n", "s", "f",
    "e", "r", "-", "E", "n", "c", "o", "d", "i", "n", "g", ":", " ", "b",
    "a", "s", "e", "6", "4", "\n">>

MIME_LAST_LINE ==
    <<"-", "-", "9", "8", "7", "6", "6", "7", "8", "9", "-", "-", "\n">>

\* "Content-Type: " + mimetypes.guess_type(...)[0] + "\n" for a text file
AttachmentTypeLine ==
    <<"C", "o", "n", "t", "e", "n", "t", "-", "T", "y", "p", "e", ":", " ",
    "t", "e", "x", "t", "/", "p", "l", "a", "i", "n", "\n">>

\* base64.encodebytes of the attachment file, here the two bytes "hi"
AttachmentBase64 ==
    <<"a", "G", "k", "=", "\n">>

\* the lines _get_SMTP_MIME_message_data_lines yields before the part of
\* the attachment
MimeHead(email) ==
    <<<<"F", "r", "o", "m", ":", " ">> \o email.reverse_path \o <<"\n">>,
      <<"T", "o", ":", " ">> \o Join(email.forward_paths) \o <<"\n">>,
      <<"S", "u", "b", "j", "e", "c", "t", ":", " ">> \o email.subject
          \o <<"\n">>,
      MIME_VERSION_LINE, MIME_MULTIPART_LINE, <<"\n">>, MIME_BOUNDARY_LINE,
      MIME_QP_LINE, MIME_TEXT_LINE, <<"\n">>>>
    \o email.message_lines
    \o <<MIME_BOUNDARY_LINE, MIME_BASE64_LINE>>

\* everything the generator yields: it stops at the Content-Type line of
\* the attachment when the type is None, and at open when the file is
\* missing
_get_SMTP_MIME_message_data_lines(email) ==
    CASE email.attachment = "unknown_type" -> MimeHead(email)
      [] email.attachment = "missing" ->
            MimeHead(email) \o <<AttachmentTypeLine, <<"\n">>>>
      [] email.attachment = "ok" ->
            MimeHead(email)
            \o <<AttachmentTypeLine, <<"\n">>, AttachmentBase64, MIME_LAST_LINE>>

\* the exception that ends the generator after its last line, or "none"
GeneratorRaises(email) ==
    CASE email.attachment = "unknown_type" -> "TypeError"
      [] email.attachment = "missing" -> "FileNotFoundError"
      [] email.attachment = "ok" -> "none"

(***************************************************************************)
(* The client process: Email.send, one action per call on the socket       *)
(***************************************************************************)
\* the emails the agent hands to send
ClientSubject == <<"s">>

ClientLine == <<"h", "i", "\n">>

ClientEmails ==
    {FilledEmail(P_A, <<P_B>>, ClientSubject, <<ClientLine>>, "ok"),
     FilledEmail(P_A, <<P_B, P_C>>, ClientSubject,
                 <<ClientLine, <<".", ".", "\n">>>>, "ok"),
     FilledEmail(P_A, <<P_B>>, ClientSubject, <<>>, "unknown_type"),
     FilledEmail(P_A, <<P_C>>, ClientSubject, <<ClientLine>>, "missing")}

\* what one recv(1024).decode() can give the client
ServerTexts ==
    {GREETING_220_MSG, CLOS_CON_221_MSG, HELO_ACK_250_MSG, OK_250_MSG,
     START_MAIL_354_MSG, SYN_COM_UNREC_ERR_500_MSG,
     SYN_PARAM_ARG_ERR_501_MSG, BAD_SEQ_COM_ERR_503_MSG,
     <<>>, <<"2", "5", "0", "\n">>, <<"2", "5", "0", " ", "O", "K">>,
     <<"2", "5", "0", " ", " ", "\n">>, <<" ", "2", "5", "0", " ", "O", "K", "\n">>,
     OK_250_MSG \o BAD_SEQ_COM_ERR_503_MSG}

Sent(text) == [dir |-> "send", text |-> text]

Received(text) == [dir |-> "recv", text |-> text]

SendPositions ==
    {"send_helo", "send_mail", "send_rcpt", "send_data", "send_lines",
     "send_eomd", "send_quit"}

ReceivePositions ==
    {"recv_220", "recv_helo", "recv_mail", "recv_rcpt", "recv_data",
     "recv_eomd", "recv_quit"}

\* the message of the _send_msg call at a position of send
MessageAt(position, email, i) ==
    CASE position = "send_helo" -> _get_helo_msg
      [] position = "send_mail" -> _get_mail_from_cmd(email)
      [] position = "send_rcpt" -> _get_rcpt_to_cmds(email)[i]
      [] position = "send_data" -> _get_data_cmd
      [] position = "send_lines" -> _get_SMTP_MIME_message_data_lines(email)[i]
      [] position = "send_eomd" -> _get_eomd_seq
      [] position = "send_quit" -> _get_quit_cmd

\* a variant of AfterSend that does not wait for the answer to HELO
AfterSend_pipelined(position, email, i) ==
    CASE position = "send_helo" -> [pc |-> "send_mail", i |-> i]
      [] position = "send_mail" -> [pc |-> "recv_mail", i |-> i]
      [] position = "send_rcpt" -> [pc |-> "recv_rcpt", i |-> i]
      [] position = "send_data" -> [pc |-> "recv_data", i |-> i]
      [] position = "send_lines" ->
            IF i < Len(_get_SMTP_MIME_message_data_lines(email))
               \/ GeneratorRaises(email) # "none"
            THEN [pc |-> "send_lines", i |-> i + 1]
            ELSE [pc |-> "send_eomd", i |-> 0]
      [] position = "send_eomd" -> [pc |-> "recv_eomd", i |-> i]
      [] position = "send_quit" -> [pc |-> "recv_quit", i |-> i]

\* where send goes on after a _send_msg that returned: to the
\* _receive_and_validate that follows it, or inside the loop over the data
\* lines to the next line
AfterSend(position, email, i) ==
    CASE position = "send_helo" -> [pc |-> "recv_helo", i |-> i]
      [] position = "send_mail" -> [pc |-> "recv_mail", i |-> i]
      [] position = "send_rcpt" -> [pc |-> "recv_rcpt", i |-> i]
      [] position = "send_data" -> [pc |-> "recv_data", i |-> i]
      [] position = "send_lines" ->
            IF i < Len(_get_SMTP_MIME_message_data_lines(email))
               \/ GeneratorRaises(email) # "none"
            THEN [pc |-> "send_lines", i |-> i + 1]
            ELSE [pc |-> "send_eomd", i |-> 0]
      [] position = "send_eomd" -> [pc |-> "recv_eomd", i |-> i]
      [] position = "send_quit" -> [pc |-> "recv_quit", i |-> i]

\* expected_msg_type of the _receive_and_validate call at a position
ExpectedAt(position) ==
    CASE position = "recv_220" -> "220"
      [] position \in {"recv_helo", "recv_mail", "recv_rcpt", "recv_eomd"} -> "250"
      [] position = "recv_data" -> "354"
      [] position = "recv_quit" -> "221"

\* sent_msg_type of the _receive_and_validate call at a position
SentTypeAt(position) ==
    CASE position = "recv_220" -> "None"
      [] position = "recv_helo" -> "HELO"
      [] position = "recv_mail" -> "MAIL_FROM"
      [] position = "recv_rcpt" -> "RCPT_TO"
      [] position = "recv_data" -> "DATA"
      [] position = "recv_eomd" -> "MESSAGE_DATA"
      [] position = "recv_quit" -> "QUIT"

\* where send goes on after a _receive_and_validate that returned
AfterReceive(position, email, i) ==
    CASE position = "recv_220" -> [pc |-> "send_helo", i |-> 0]
      [] position = "recv_helo" -> [pc |-> "send_mail", i |-> 0]
      [] position = "recv_mail" ->
            IF Len(email.forward_paths) = 0
            THEN [pc |-> "send_data", i |-> 0]
            ELSE [pc |-> "send_rcpt", i |-> 1]
      [] position = "recv_rcpt" ->
            IF i < Len(email.forward_paths)
            THEN [pc |-> "send_rcpt", i |-> i + 1]
            ELSE [pc |-> "send_data", i |-> 0]
      [] position = "recv_data" -> [pc |-> "send_lines", i |-> 1]
      [] position = "recv_eomd" -> [pc |-> "send_quit", i |-> 0]
      [] position = "recv_quit" -> [pc |-> "done", i |-> 0]

\* a variant of Validated that says QUIT before it closes the socket
Validated_quit(position, email, i, text, parsed) ==
    IF parsed.exc = "ParsingError"
    THEN [pc |-> "raised", i |-> i, socket |-> "closed",
          raised |-> "SMTPBreakOfProtocolError",
          log |-> <<Received(text), Sent(_get_quit_cmd)>>]
    ELSE [pc |-> AfterReceive(position, email, i).pc,
          i |-> AfterReceive(position, email, i).i, socket |-> "open",
          raised |-> "none", log |-> <<Received(text)>>]

\* the validation of _receive_and_validate: the text goes through the
\* parser of the expected response; a ParsingError closes the socket and
\* becomes an SMTPBreakOfProtocolError, anything else lets send go on
Validated(position, email, i, text, parsed) ==
    IF parsed.exc = "ParsingError"
    THEN [pc |-> "raised", i |-> i, socket |-> "closed",
          raised |-> "SMTPBreakOfProtocolError", log |-> <<Received(text)>>]
    ELSE [pc |-> AfterReceive(position, email, i).pc,
          i |-> AfterReceive(position, email, i).i, socket |-> "open",
          raised |-> "none", log |-> <<Received(text)>>]

\* what the except branch of recv leaves: the socket is closed, the output
\* is chosen by sent_msg_type, and for "RCPT_TO", which no branch names,
\* print finds rec_error_output unbound
ReceiveFailure(sent_msg_type) ==
    IF sent_msg_type \in {"None", "HELO", "MAIL_FROM", "RCTP_TO", "DATA",
                          "MESSAGE_DATA", "QUIT"}
    THEN "SocketError" ELSE "UnboundLocalError"

\* socket(), connect: a failure prints and raises SocketError
Connect(ok) ==
    /\ client_pc = "connect"
    /\ IF ok
       THEN /\ client_socket' = "open"
            /\ client_pc' = "recv_220"
            /\ client_raised' = "none"
       ELSE /\ client_socket' = "none"
            /\ client_pc' = "raised"
            /\ client_raised' = "SocketError"
    /\ UNCHANGED <<client_email, client_i, client_log>>
    /\ UNCHANGED <<svars, pvars, wvars>>

\* _send_msg: the message goes into the socket, or the socket is closed
\* and SocketError raised
ClientSend(ok) ==
    /\ client_pc \in SendPositions
    /\ client_pc = "send_lines" =>
          client_i <= Len(_get_SMTP_MIME_message_data_lines(client_email))
    /\ IF ok
       THEN /\ client_log' = Append(client_log,
                  Sent(MessageAt(client_pc, client_email, client_i)))
            /\ client_pc' = AfterSend(client_pc, client_email, client_i).pc
            /\ client_i' = AfterSend(client_pc, client_email, client_i).i
            /\ UNCHANGED <<client_socket, client_raised>>
       ELSE /\ client_socket' = "closed"
            /\ client_pc' = "raised"
            /\ client_raised' = "SocketError"
            /\ UNCHANGED <<client_log, client_i>>
    /\ UNCHANGED client_email
    /\ UNCHANGED <<svars, pvars, wvars>>

\* the generator of the data lines raises when asked for its next line:
\* the exception leaves send with the socket open
DataError ==
    /\ client_pc = "send_lines"
    /\ client_i > Len(_get_SMTP_MIME_message_data_lines(client_email))
    /\ client_pc' = "raised"
    /\ client_raised' = GeneratorRaises(client_email)
    /\ UNCHANGED <<client_email, client_socket, client_i, client_log>>
    /\ UNCHANGED <<svars, pvars, wvars>>

\* _receive_and_validate with a recv that returns
ClientReceive(text) ==
    /\ client_pc \in ReceivePositions
    /\ LET v == Validated(client_pc, client_email, client_i, text,
                          parsing_procedure(ExpectedAt(client_pc), text))
       IN  /\ client_pc' = v.pc
           /\ client_i' = v.i
           /\ client_socket' = v.socket
           /\ client_raised' = v.raised
           /\ client_log' = client_log \o v.log
    /\ UNCHANGED client_email
    /\ UNCHANGED <<svars, pvars, wvars>>

\* _receive_and_validate with a recv that raises
ClientReceiveError ==
    /\ client_pc \in ReceivePositions
    /\ client_socket' = "closed"
    /\ client_pc' = "raised"
    /\ client_raised' = ReceiveFailure(SentTypeAt(client_pc))
    /\ UNCHANGED <<client_email, client_i, client_log>>
    /\ UNCHANGED <<svars, pvars, wvars>>

InitClient ==
    /\ ServerIdle
    /\ CursorIdle
    /\ WireIdle
    /\ client_pc = "connect"
    /\ client_email \in ClientEmails
    /\ client_socket = "none"
    /\ client_i = 0
    /\ client_log = <<>>
    /\ client_raised = "none"

NextClient ==
    \/ \E ok \in BOOLEAN : Connect(ok)
    \/ \E ok \in BOOLEAN : ClientSend(ok)
    \/ DataError
    \/ \E text \in ServerTexts : ClientReceive(text)
    \/ ClientReceiveError

SpecClient == InitClient /\ [][NextClient]_vars

(***************************************************************************)
(* The client and the server talking to each other over one connection.    *)
(* What the client sends is written to the connection as bytes, and each   *)
(* recv of the server returns some of the bytes that are waiting; each     *)
(* response of the server reaches the client whole, one response per recv. *)
(* No send and no recv fails.                                              *)
(***************************************************************************)
TalkLine == <<"c", "a", "f", "U+E9", "\n">>

\* the emails the agent hands to send
TalkEmails ==
    ClientEmails \cup
        {FilledEmail(P_A, <<P_B>>, ClientSubject, <<TalkLine>>, "ok")}

\* the most bytes one recv of the server returns short of all that wait
MaxChunk == 2

InitTalk ==
    /\ ServerIdle
    /\ CursorIdle
    /\ WireIdle
    /\ client_pc = "connect"
    /\ client_email \in TalkEmails
    /\ client_socket = "none"
    /\ client_i = 0
    /\ client_log = <<>>
    /\ client_raised = "none"

\* accept() returns once the client has connected
TalkAccept == client_socket = "open" /\ WireAccept

\* _send_msg: the bytes of the message go into the socket
TalkSend ==
    /\ client_pc \in SendPositions
    /\ client_pc = "send_lines" =>
          client_i <= Len(_get_SMTP_MIME_message_data_lines(client_email))
    /\ client_log' = Append(client_log,
           Sent(MessageAt(client_pc, client_email, client_i)))
    /\ client_pc' = AfterSend(client_pc, client_email, client_i).pc
    /\ client_i' = AfterSend(client_pc, client_email, client_i).i
    /\ wire_up' = wire_up \o encode(MessageAt(client_pc, client_email, client_i))
    /\ UNCHANGED <<client_email, client_socket, client_raised>>
    /\ UNCHANGED <<svars, pvars, wire_down, wire_log>>

\* the number of responses the client has received
ResponsesRead ==
    Cardinality({k \in DOMAIN client_log : client_log[k].dir = "recv"})

\* _receive_and_validate: recv returns the next response of the server
TalkReceiveResponse ==
    /\ ResponsesRead < Len(wire_down)
    /\ ClientReceive(wire_down[ResponsesRead + 1])

\* the numbers of bytes one recv of the server returns: up to MaxChunk of
\* the bytes that wait, or all of them
ChunkSizes ==
    {n \in (1..MaxChunk) \cup {Len(wire_up)} : 1 <= n /\ n <= Len(wire_up)}

\* the buffer holds a complete line: it is taken off the buffer and handled,
\* and its response, if it has one, is written to the connection
TalkProcessLine ==
    /\ pc = "session"
    /\ contains_complete_msg(sock_stream_rem_string)
    /\ sock_stream_rem_string' = after_msg(sock_stream_rem_string)
    /\ Handle(Line(state, current_email, get_msg(sock_stream_rem_string)), TRUE)
    /\ wire_down' = wire_down \o sent'
    /\ wire_log' =
           Append(wire_log, [line |-> get_msg(sock_stream_rem_string),
                             appended |-> appended'])
    /\ UNCHANGED wire_up
    /\ UNCHANGED <<cvars, pvars>>

NextTalk ==
    \/ Connect(TRUE)
    \/ TalkAccept
    \/ TalkSend
    \/ DataError
    \/ TalkReceiveResponse
    \/ \E n \in ChunkSizes : WireReceive(n)
    \/ \E n \in ChunkSizes : WireDecodeError(n)
    \/ TalkProcessLine
    \/ WireDeliveryFails

SpecTalk == InitTalk /\ [][NextTalk]_vars

(***************************************************************************)
(* Vocabulary of the client claims: the conversation that send is to hold  *)
(***************************************************************************)
\* the text begins with a response line of the code: the code, spaces or
\* tabs, printable characters, a newline
StartsWithResponseLine(code, text) ==
    /\ IsPrefix(code, text)
    /\ \E i \in 4..Len(text), j \in 6..Len(text) :
          /\ i + 1 < j
          /\ \A k \in 4..i : text[k] \in SP
          /\ \A k \in (i + 1)..(j - 1) : text[k] \in Printable
          /\ text[j] = "\n"

Expect(code) == [dir |-> "recv", code |-> code]

CODE_220 == <<"2", "2", "0">>
CODE_221 == <<"2", "2", "1">>
CODE_250 == <<"2", "5", "0">>
CODE_354 == <<"3", "5", "4">>

\* the code awaited at a position of receive
CodeAwaited(position) ==
    CASE position = "recv_220" -> CODE_220
      [] position = "recv_data" -> CODE_354
      [] position = "recv_quit" -> CODE_221
      [] OTHER -> CODE_250

\* the whole conversation for an email: what is sent, in order, and where
\* a response of which code is awaited
Script(email) ==
    <<Expect(CODE_220), Sent(_get_helo_msg), Expect(CODE_250),
      Sent(_get_mail_from_cmd(email)), Expect(CODE_250)>>
    \o [k \in 1..(2 * Len(email.forward_paths)) |->
          IF k % 2 = 1 THEN Sent(_get_rcpt_to_cmds(email)[(k + 1) \div 2])
          ELSE Expect(CODE_250)]
    \o <<Sent(_get_data_cmd), Expect(CODE_354)>>
    \o [k \in 1..Len(_get_SMTP_MIME_message_data_lines(email)) |->
          Sent(_get_SMTP_MIME_message_data_lines(email)[k])]
    \o (IF GeneratorRaises(email) = "none"
        THEN <<Sent(_get_eomd_seq), Expect(CODE_250), Sent(_get_quit_cmd),
               Expect(CODE_221)>>
        ELSE <<>>)

\* the k-th event of the log is the k-th of the script; a response that
\* something followed, or that left send running, was a line of the code
\* awaited
FollowsScript(log, script, k, running) ==
    /\ log[k].dir = script[k].dir
    /\ log[k].dir = "send" => log[k].text = script[k].text
    /\ (log[k].dir = "recv" /\ (k < Len(log) \/ running)) =>
          StartsWithResponseLine(script[k].code, log[k].text)

(***************************************************************************)
(* C18: the client is lock-step and ordered.  Everything it has sent and   *)
(* received is, in order, a beginning of the conversation: the 220         *)
(* greeting first, then HELO / 250, MAIL FROM / 250, one RCPT TO / 250 for *)
(* each forward path in the order of the list, DATA / 354, every data line *)
(* and the end-of-data marker with no response awaited between them, 250,  *)
(* QUIT / 221; each response before a later message was a line of the code *)
(* awaited, and send returns only when the whole conversation was held.    *)
(***************************************************************************)
C18_LockStepOrder ==
    /\ Len(client_log) <= Len(Script(client_email))
    /\ \A k \in 1..Len(client_log) :
          FollowsScript(client_log, Script(client_email), k,
                        client_raised = "none")
    /\ client_pc = "done" => Len(client_log) = Len(Script(client_email))

\* send has returned for an email of two forward paths: the log ends with
\* QUIT and the 221 of the server
C18_Witness ==
    /\ client_pc = "done"
    /\ Len(client_email.forward_paths) = 2
    /\ Len(client_log) = Len(Script(client_email))
    /\ client_log[Len(client_log)] = Received(CLOS_CON_221_MSG)
    /\ client_log[Len(client_log) - 1] = Sent(_get_quit_cmd)

(***************************************************************************)
(* C19: when what the client receives at a step is not a response line of  *)
(* the code awaited there (the code, one or more spaces or tabs, one or    *)
(* more printable characters and the newline, and nothing else; a 500, 501 *)
(* or 503 reply is none), that step closes the connection and raises       *)
(* SMTPBreakOfProtocolError with nothing sent, no QUIT either; and once    *)
(* send has raised, nothing more is sent or received.                      *)
(***************************************************************************)
IsOneResponseLine(code, text) ==
    /\ IsPrefix(code, text)
    /\ Len(text) >= 6
    /\ text[Len(text)] = "\n"
    /\ \E i \in 4..(Len(text) - 2) :
          /\ \A k \in 4..i : text[k] \in SP
          /\ \A k \in (i + 1)..(Len(text) - 1) : text[k] \in Printable

C19_MismatchEndsConversation ==
    [][/\ (/\ client_pc \in ReceivePositions
           /\ client_log' # client_log
           /\ ~IsOneResponseLine(CodeAwaited(client_pc),
                                 client_log'[Len(client_log) + 1].text))
          => /\ client_socket' = "closed"
             /\ client_raised' = "SMTPBreakOfProtocolError"
             /\ client_pc' = "raised"
             /\ Len(client_log') = Len(client_log) + 1
             /\ client_log'[Len(client_log')].dir = "recv"
       /\ client_raised # "none" =>
             (client_log' = client_log /\ client_raised' = client_raised)]_vars

\* after MAIL FROM the server answered 503: the connection is closed, the
\* error raised, and the 503 is the last event of the conversation
C19_Witness ==
    /\ client_pc = "raised"
    /\ client_raised = "SMTPBreakOfProtocolError"
    /\ client_socket = "closed"
    /\ Len(client_log) = 5
    /\ client_log[4] = Sent(_get_mail_from_cmd(client_email))
    /\ client_log[5] = Received(BAD_SEQ_COM_ERR_503_MSG)

(***************************************************************************)
(* C20: a failure of the connection ends the session and nothing else: a   *)
(* step that ends a session, whatever the state and whether it was         *)
(* sending or receiving, leaves the server waiting in accept(); and the    *)
(* server process is never ended.                                          *)
(***************************************************************************)
C20_FailureEndsSessionOnly ==
    [][(pc = "session" /\ pc' # "session") => pc' = "accept"]_vars
(***************************************************************************)
(* C21: when the client has closed its end of the connection and the       *)
(* server reads (the buffer holds no complete line: it is empty or holds   *)
(* an unterminated tail), whatever the session state, the session ends and *)
(* the server eventually is back in accept().                              *)
(***************************************************************************)
C21_HangupEndsSession ==
    (/\ pc = "session"
     /\ client_socket = "closed"
     /\ ~contains_complete_msg(sock_stream_rem_string)) ~> (pc = "accept")

(***************************************************************************)
(* C22: the scenario.  From a new session the lines HELO client.example,   *)
(* MAIL FROM:<a@x.com>, RCPT TO:<b@y.com>, DATA, Hello world and "." are   *)
(* handled in this order, in the states AwaitHelo, AwaitMailFrom,          *)
(* AwaitRcptTo, AwaitRcptToOrData, AwaitDataLines, AwaitDataLines, and are *)
(* answered 250 Hello <ip> pleased to meet you, 250 OK, 250 OK, 354 Start  *)
(* mail input, nothing, 250 OK; the last line delivers the transaction of  *)
(* a@x.com to b@y.com with the one data line to the sink y.com and to no   *)
(* other, and leaves the session in AwaitMailFrom with a new transaction.  *)
(***************************************************************************)
R_HELLO_IP ==
    <<"2", "5", "0", " ", "H", "e", "l", "l", "o", " ", "1", "2", "7", ".",
    "0", ".", "0", ".", "1", " ", "p", "l", "e", "a", "s", "e", "d", " ",
    "t", "o", " ", "m", "e", "e", "t", " ", "y", "o", "u", "\n">>

R_OK ==
    <<"2", "5", "0", " ", "O", "K", "\n">>

R_START ==
    <<"3", "5", "4", " ", "S", "t", "a", "r", "t", " ", "m", "a", "i", "l",
    " ", "i", "n", "p", "u", "t", ";", " ", "e", "n", "d", " ", "w", "i",
    "t", "h", " ", "<", "C", "R", "L", "F", ">", ".", "<", "C", "R", "L",
    "F", ">", "\n">>

SINK_Y_COM ==
    <<"f", "o", "r", "w", "a", "r", "d", "/", "y", ".", "c", "o", "m">>

P_A_X_COM ==
    <<"<", "a", "@", "x", ".", "c", "o", "m", ">">>

P_B_Y_COM ==
    <<"<", "b", "@", "y", ".", "c", "o", "m", ">">>

ScenarioResponses ==
    <<<<R_HELLO_IP>>, <<R_OK>>, <<R_OK>>, <<R_START>>, <<>>, <<R_OK>>>>

ScenarioBefore == <<STATE_0, STATE_1, STATE_2, STATE_3, STATE_4, STATE_4>>

ScenarioAfter == <<STATE_1, STATE_2, STATE_3, STATE_4, STATE_4, STATE_1>>

ScenarioStep(k) ==
    /\ TheLine = ScenarioLines[k]
    /\ state = ScenarioBefore[k]
    /\ ~SendFailed =>
          /\ sent' = ScenarioResponses[k]
          /\ state' = ScenarioAfter[k]
          /\ pc' = "session"
          /\ k < 6 => appended' = NoFiles
          /\ k = 6 =>
                /\ current_email.reverse_path = P_A_X_COM
                /\ current_email.forward_paths = <<P_B_Y_COM>>
                /\ current_email.message_lines = <<S_HELLO>>
                /\ DOMAIN appended' = {SINK_Y_COM}
                /\ Occurs(S_HELLO, appended'[SINK_Y_COM])
                /\ current_email' = Email

C22_Scenario == [][Handled => \E k \in 1..6 : ScenarioStep(k)]_vars

\* the whole text has been handled: the mail is in the sink y.com, the
\* last response is 250 OK and the session awaits MAIL FROM
C22_Witness ==
    /\ pc = "session"
    /\ state = STATE_1
    /\ sent = <<R_OK>>
    /\ DOMAIN appended = {SINK_Y_COM}
    /\ current_email = Email
    /\ sock_stream_rem_string = <<>>

(***************************************************************************)
(* C23: sessions are independent.  Every accepted connection is greeted    *)
(* with 220 and its session starts in AwaitHelo with a new transaction and *)
(* an empty buffer, whatever state, transaction and unprocessed input the  *)
(* session before it left behind, however it ended.                        *)
(***************************************************************************)
C23_SessionStartsAfresh ==
    [][(pc = "accept" /\ pc' = "session") =>
          /\ sent' = <<GREETING_220_MSG>>
          /\ state' = STATE_0
          /\ current_email' = Email
          /\ sock_stream_rem_string' = <<>>]_vars

\* the server is back in accept() after a session that failed in
\* AwaitRcptToOrData with a transaction under way and input left unprocessed
C23_Witness ==
    /\ pc = "accept"
    /\ state = STATE_3
    /\ current_email.reverse_path = P_A
    /\ current_email.forward_paths = <<P_B>>
    /\ sock_stream_rem_string = <<"x">>

(***************************************************************************)
(* C24: the cursor contract.  A call of consume whose pattern matches at   *)
(* the start of the remaining text removes the matched prefix (the longest *)
(* text of the pattern that the remaining text starts with) and nothing    *)
(* else, and returns; a call whose pattern does not match raises           *)
(* ConsumptionError and leaves the remaining text as it was; so the        *)
(* remaining text always is what is left of the input after some prefix.   *)
(***************************************************************************)
\* p is a text of the pattern
FullMatch(regexp, p) ==
    CASE regexp.kind = "lit" -> p = regexp.text
      [] regexp.kind = "whitespace" -> Len(p) > 0 /\ AllSP(p)
      [] regexp.kind = "nullspace" -> AllSP(p)
      [] regexp.kind = "domain" -> IsDomain(p)
      [] regexp.kind = "string" ->
            /\ Len(p) > 0
            /\ \A i \in 1..Len(p) : p[i] \notin Specials \cup {" ", "\t", "\n"}
      [] regexp.kind = "arbitrary" ->
            Len(p) > 0 /\ \A i \in 1..Len(p) : p[i] \in Printable

\* the lengths of the prefixes of s that are texts of the pattern
MatchedPrefixes(regexp, s) ==
    {n \in 0..Len(s) : FullMatch(regexp, SubSeq(s, 1, n))}

C24_CursorContract ==
    [][/\ IF MatchedPrefixes(cursor_regexp', cursor_rs) # {}
          THEN /\ cursor_exc' = "none"
               /\ cursor_rs' =
                     SubSeq(cursor_rs,
                            Max(MatchedPrefixes(cursor_regexp', cursor_rs)) + 1,
                            Len(cursor_rs))
          ELSE /\ cursor_exc' = "ConsumptionError"
               /\ cursor_rs' = cursor_rs
       /\ \E k \in 0..Len(cursor_input') :
             cursor_rs' = SubSeq(cursor_input', k + 1, Len(cursor_input'))]_vars

\* of "MAIL FROM: <b@y> \n" the calls have consumed "MAIL", the space and
\* "FROM:"; consume("<") then raised and the text " <b@y> \n" is still there
C24_Witness ==
    /\ cursor_input = L_MAIL_B
    /\ cursor_rs = SubSeq(L_MAIL_B, 11, Len(L_MAIL_B))
    /\ cursor_regexp = Lit(<<"<">>)
    /\ cursor_exc = "ConsumptionError"

(***************************************************************************)
(* C25: a path whose local-part holds a character that is not printable    *)
(* ASCII (a carriage return, a form feed) is rejected: the MAIL FROM or    *)
(* RCPT TO line that carries it has invalid arguments.                     *)
(***************************************************************************)
\* the text between "<" and "@" of a line that has both
LocalPartIn(line) ==
    SubSeq(line, FirstIdx(line, "<") + 1, FirstIdx(line, "@") - 1)

C25_ControlCharacterRejected ==
    (/\ LineReady
     /\ \E i \in 1..Len(LocalPartIn(TheLine)) :
           LocalPartIn(TheLine)[i] \notin Printable)
    => ~(Kind \in {MAIL_FROM, RCPT_TO} /\ Valid)

(***************************************************************************)
(* C26: the client accepts what it has received as the response of the     *)
(* code awaited exactly when the whole text is one response line: the      *)
(* code, one or more spaces or tabs, one or more printable characters and  *)
(* a newline, with nothing after it.                                       *)
(***************************************************************************)
C26_AcceptsExactlyOneLine ==
    [][(client_pc \in ReceivePositions /\ client_log' # client_log) =>
          (client_raised' = "none" <=>
              IsOneResponseLine(CodeAwaited(client_pc),
                                client_log'[Len(client_log')].text))]_vars

(***************************************************************************)
(* C27: when receiving the response fails, at whatever step of the         *)
(* conversation, the client closes the socket and SocketError, no other    *)
(* error, leaves send.                                                     *)
(***************************************************************************)
C27_ReceiveFailureIsSocketError ==
    [][(/\ client_pc \in ReceivePositions
        /\ client_pc' = "raised"
        /\ client_log' = client_log) =>
          (client_socket' = "closed" /\ client_raised' = "SocketError")]_vars

(***************************************************************************)
(* C28: the session invariant.  In a running session: in AwaitHelo and     *)
(* AwaitMailFrom the transaction has no forward-path and no data line; in  *)
(* AwaitRcptTo it has its reverse-path, no forward-path and no data line;  *)
(* in AwaitRcptToOrData and AwaitDataLines it has its reverse-path and at  *)
(* least one forward-path; it has data lines in AwaitDataLines only.       *)
(***************************************************************************)
C28_SessionInvariant ==
    pc = "session" =>
        /\ state \in {STATE_0, STATE_1} =>
              /\ current_email.forward_paths = <<>>
              /\ current_email.message_lines = <<>>
        /\ state = STATE_2 =>
              /\ current_email.reverse_path # <<>>
              /\ current_email.forward_paths = <<>>
              /\ current_email.message_lines = <<>>
        /\ state \in {STATE_3, STATE_4} =>
              /\ current_email.reverse_path # <<>>
              /\ Len(current_email.forward_paths) >= 1
        /\ current_email.message_lines # <<>> => state = STATE_4

\* a session in AwaitDataLines that holds a whole transaction: its
\* reverse-path, two forward-paths and a data line
C28_Witness ==
    /\ pc = "session"
    /\ state = STATE_4
    /\ current_email.reverse_path = P_A
    /\ Len(current_email.forward_paths) = 2
    /\ Len(current_email.message_lines) = 1

(***************************************************************************)
(* C29: within a session the state changes only from AwaitHelo to          *)
(* AwaitMailFrom, from there to AwaitRcptTo, to AwaitRcptToOrData, to      *)
(* AwaitDataLines and back to AwaitMailFrom: no state is skipped and none  *)
(* leads back to AwaitHelo.  So HELO is acknowledged in AwaitHelo only,    *)
(* and DATA is answered 354 only in AwaitRcptToOrData, with the            *)
(* reverse-path and a forward-path of the transaction in place.            *)
(***************************************************************************)
StateEdges ==
    {<<STATE_0, STATE_1>>, <<STATE_1, STATE_2>>, <<STATE_2, STATE_3>>,
     <<STATE_3, STATE_4>>, <<STATE_4, STATE_1>>}

C29_StateEdges ==
    [][(pc = "session" /\ pc' = "session") =>
          /\ state' # state => <<state, state'>> \in StateEdges
          /\ sent' = <<HELO_ACK_250_MSG>> => state = STATE_0
          /\ sent' = <<START_MAIL_354_MSG>> =>
                /\ state = STATE_3
                /\ current_email.reverse_path # <<>>
                /\ current_email.forward_paths # <<>>]_vars

\* the end of the data has just taken a session that delivered to two
\* files from AwaitDataLines back to AwaitMailFrom
C29_Witness ==
    /\ pc = "session"
    /\ state = STATE_1
    /\ sent = <<OK_250_MSG>>
    /\ Cardinality(DOMAIN appended) = 2

(***************************************************************************)
(* C30: response counting.  A step handles one line, and unless the send   *)
(* fails it puts on the wire, before the next line is handled: exactly one *)
(* response, of code 250, 354, 221, 500, 501 or 503, for a line handled    *)
(* outside AwaitDataLines; nothing for a data line; exactly one 250 OK for *)
(* the end-of-data marker.                                                 *)
(***************************************************************************)
ResponseCodes ==
    {<<"2", "5", "0">>, <<"3", "5", "4">>, <<"2", "2", "1">>,
     <<"5", "0", "0">>, <<"5", "0", "1">>, <<"5", "0", "3">>}

C30_OneResponsePerLine ==
    [][(Handled /\ ~SendFailed) =>
          IF state \in NonData
          THEN /\ Len(sent') = 1
               /\ SubSeq(sent'[1], 1, 3) \in ResponseCodes
               /\ sent'[1][4] = " "
          ELSE IF TheLine = EOMD_SEQ
          THEN sent' = <<OK_250_MSG>>
          ELSE sent' = <<>>]_vars

\* QUIT in AwaitRcptToOrData has been answered with the one response 221
\* and the session is over
C30_Witness ==
    /\ pc = "accept"
    /\ state = STATE_3
    /\ sent = <<CLOS_CON_221_MSG>>
    /\ Len(current_email.forward_paths) = 1

(***************************************************************************)
(* C31: delivery.  The step that handles the end-of-data marker in         *)
(* AwaitDataLines writes the data lines of the block once to the sink of   *)
(* each distinct recipient domain of the transaction, and it has written   *)
(* them whether or not its 250 OK could then be sent: the response follows *)
(* the writes.  After it the block is gone: the session awaits MAIL FROM   *)
(* with an empty transaction, or it is over.  No other step writes to any  *)
(* sink: not a QUIT, not a line answered with an error, not a data line,   *)
(* not a receive, not a failed send or receive.                            *)
(***************************************************************************)
Delivers == Handled /\ state = STATE_4 /\ TheLine = EOMD_SEQ

C31_DeliveredOnceBeforeAck ==
    [][IF Delivers
       THEN /\ DOMAIN appended' =
                   {FORWARD_DIR \o DomainIn(p) :
                       p \in Range(current_email.forward_paths)}
            /\ \A n \in DOMAIN appended' :
                   appended'[n] = current_email.message_lines
            /\ \/ /\ Answered(OK_250_MSG)
                  /\ pc' = "session"
                  /\ state' = STATE_1
                  /\ current_email' = Email
               \/ SendFailed
       ELSE appended' = NoFiles]_vars

\* a data block of one line for two recipients of one domain has been
\* written to the one sink of that domain, and the 250 OK could not be sent
C31_Witness ==
    /\ pc = "accept"
    /\ sent = <<>>
    /\ state = STATE_4
    /\ current_email.forward_paths = <<P_B, P_B>>
    /\ DOMAIN appended = {FORWARD_DIR \o <<"y">>}
    /\ appended[FORWARD_DIR \o <<"y">>] = <<L_QUIT>>

(***************************************************************************)
(* C32: chunking independence.  What a session comes to on the text a      *)
(* client has written (the responses it sends, in order; the lines it      *)
(* handles and what it writes to the sinks for each; its final state and   *)
(* transaction, and whether it is running, over or dead) is the same       *)
(* however the text is cut into the chunks that recv returns.  Stated      *)
(* step by step: the outcome the session would reach from where it is,     *)
(* were the rest of the text to arrive one whole line at a time, is not    *)
(* changed by any step, whatever the chunk that step receives.             *)
(***************************************************************************)
Seen ==
    [pc |-> pc, state |-> state, email |-> current_email,
     down |-> wire_down, log |-> wire_log]

\* what an observer has seen once the session r has handled line with the
\* outcome o
AfterLine(r, line, o) ==
    [pc |-> IF o.dies THEN "crashed" ELSE IF o.quit THEN "accept" ELSE "session",
     state |-> IF o.dies THEN r.state ELSE o.next,
     email |-> IF o.dies THEN o.pre ELSE o.post,
     down |-> IF o.dies \/ o.send = <<>> THEN r.down ELSE Append(r.down, o.send),
     log |-> Append(r.log, [line |-> line, appended |-> o.appended])]

\* what an observer has seen at the end, when the session r handles the
\* lines of text one after the other
RECURSIVE OneLineAtATime(_, _)
OneLineAtATime(r, text) ==
    IF r.pc # "session" \/ ~contains_complete_msg(text) THEN r
    ELSE CHOOSE end \in
             {OneLineAtATime(next, rest) :
                 next \in {AfterLine(r, get_msg(text), o) :
                               o \in {Line(r.state, r.email, get_msg(text))}},
                 rest \in {after_msg(text)}} : TRUE

\* what an observer will have seen at the end, should the text that has
\* not been handled yet be handled one line after the other
OutcomeOf(r, text) ==
    IF r.pc # "session" THEN r ELSE OneLineAtATime(r, text)

Unhandled == sock_stream_rem_string \o decode(wire_up)

C32_ChunkingIndependence ==
    [][pc = "session" =>
          \E before \in {Seen}, after \in {Seen'},
             text \in {Unhandled}, rest \in {Unhandled'} :
              OutcomeOf(after, rest) = OutcomeOf(before, text)]_vars

(***************************************************************************)
(* C33: the client and the server are compatible.  In a talk between the   *)
(* two over a connection on which no send and no recv fails and every      *)
(* response arrives whole: each command line the session handles is        *)
(* classified as the kind the client meant by it (the one whose answer it  *)
(* awaits) with valid arguments; each response is accepted by the grammar  *)
(* the client expects, so that send never raises; the server process does  *)
(* not end; and when send has run through the 221, the session is over     *)
(* and has delivered one transaction, once, to the sinks of the domains of *)
(* the email's forward-paths.                                              *)
(***************************************************************************)
\* the command kind whose answer the client awaits
Intended(position) ==
    CASE position = "recv_helo" -> HELO
      [] position = "recv_mail" -> MAIL_FROM
      [] position = "recv_rcpt" -> RCPT_TO
      [] position = "recv_data" -> DATA
      [] position = "recv_quit" -> QUIT
      [] OTHER -> UNRECOGNIZED

\* the lines of the log at which the session wrote to sinks
Deliveries(log) == {k \in DOMAIN log : log[k].appended # NoFiles}

C33_ClientServerCompatible ==
    [][/\ (Handled /\ state \in NonData) =>
              Kind = Intended(client_pc) /\ Kind # UNRECOGNIZED /\ Valid
       /\ client_raised' = "none"
       /\ pc' # "crashed"
       /\ client_pc' = "done" =>
              /\ pc' = "accept"
              /\ Cardinality(Deliveries(wire_log')) = 1
              /\ \A k \in Deliveries(wire_log') :
                     DOMAIN wire_log'[k].appended =
                         {FORWARD_DIR \o DomainIn(path) :
                             path \in Range(client_email.forward_paths)}]_vars

(***************************************************************************)
(* C34: a session ends with its QUIT.  A step that handles a well-formed   *)
(* QUIT outside the data state sends 221 and nothing else, writes to no    *)
(* sink, changes neither the state nor the transaction and leaves the      *)
(* session, whatever lines wait in the buffer behind the QUIT.  Once the   *)
(* session is left, no step handles a line: the only step is the accept of *)
(* the next connection, which sends at most the greeting, writes to no     *)
(* sink and starts the next session with an empty buffer, in AwaitHelo,    *)
(* with a new transaction.                                                 *)
(***************************************************************************)
QuitHandled == Handled /\ state \in NonData /\ Kind = QUIT /\ Valid

C34_NothingAfterQuit ==
    [][/\ QuitHandled =>
              /\ Answered(CLOS_CON_221_MSG) \/ SendFailed
              /\ pc' = "accept"
              /\ appended' = NoFiles
              /\ state' = state
              /\ current_email' = current_email
       /\ pc = "accept" =>
              /\ sent' \in {<<>>, <<GREETING_220_MSG>>}
              /\ appended' = NoFiles
              /\ \/ /\ pc' = "accept"
                    /\ UNCHANGED <<state, current_email, sock_stream_rem_string>>
                 \/ /\ pc' = "session"
                    /\ state' = STATE_0
                    /\ current_email' = Email
                    /\ sock_stream_rem_string' = <<>>]_vars

\* the session has answered a QUIT that came after the recipients, and the
\* data of the transaction, complete with its end, waits in the buffer
C34_Witness ==
    /\ pc = "accept"
    /\ sent = <<CLOS_CON_221_MSG>>
    /\ state = STATE_3
    /\ current_email.forward_paths = <<P_B>>
    /\ sock_stream_rem_string = L_DATA \o L_DOTDOT \o EOMD_SEQ \o L_QUIT

(***************************************************************************)
(* C35: the keywords of the five command grammars exclude each other.      *)
(* For every line the session classifies, each of the five grammars being  *)
(* run on the whole line: at most one grammar finds its keyword (accepts   *)
(* the line or reports its arguments as malformed); the classification is  *)
(* the one the first such grammar gives, in the order HELO, MAIL FROM,     *)
(* RCPT TO, DATA, QUIT; and trying the five grammars in any other order    *)
(* gives the same classification.                                          *)
(***************************************************************************)
CommandKinds == {HELO, MAIL_FROM, RCPT_TO, DATA, QUIT}

\* the outcome of the trial of each grammar on the whole line ms
Trials(ms) ==
    [kind \in CommandKinds |->
        CASE kind = HELO -> Trial(parse_helo_msg(ms))
          [] kind = MAIL_FROM -> Trial(parse_mail_from_cmd(ms))
          [] kind = RCPT_TO -> Trial(parse_rcpt_to_cmd(ms))
          [] kind = DATA -> Trial(parse_data_cmd(ms))
          [] kind = QUIT -> Trial(parse_quit_cmd(ms))]

\* the orders in which the five grammars can be tried
Orders ==
    {order \in [1..5 -> CommandKinds] :
        \A kind \in CommandKinds : \E i \in 1..5 : order[i] = kind}

\* the places of an order at which the trial does not pass
Stops(order, t) == {i \in 1..5 : t[order[i]] # "pass"}

\* the classification when the grammars are tried in the given order
InOrder(order, t) ==
    IF Stops(order, t) = {}
    THEN Msg(UNRECOGNIZED, FALSE)
    ELSE IF Decides(t[order[Min(Stops(order, t))]])
    THEN Msg(order[Min(Stops(order, t))],
             t[order[Min(Stops(order, t))]] = "error")
    ELSE NoMsg(t[order[Min(Stops(order, t))]])

C35_KeywordsExclusive ==
    [][Handled =>
          \E t \in {Trials(TheLine)}, msg \in {Message(TheLine)} :
              /\ Cardinality({kind \in CommandKinds : Decides(t[kind])}) <= 1
              /\ msg = InOrder(<<HELO, MAIL_FROM, RCPT_TO, DATA, QUIT>>, t)
              /\ \A order \in Orders : InOrder(order, t) = msg]_vars

\* a QUIT line, which the grammar tried last accepts, has been answered
C35_Witness ==
    /\ pc = "accept"
    /\ sent = <<CLOS_CON_221_MSG>>
    /\ state = STATE_2
    /\ sock_stream_rem_string = <<>>
    /\ current_email.reverse_path = P_A

====
